---- MODULE Spec2Model ----
(***************************************************************************)
(* Request pipeline of the dynamic mock server: RequestMatcher (route      *)
(* matching, condition evaluation), ResponseProcessor (connection failure, *)
(* timeout, latency, body assembly, delivery) and the timers they arm.     *)
(* Strings that the code inspects character by character (paths, route     *)
(* patterns, values compared by the operators) are tuples of one-character *)
(* strings.                                                                *)
(***************************************************************************)
EXTENDS Integers, Sequences, FiniteSets, TLC

(***************************************************************************)
(* JSON values, all of one record shape so that values of different        *)
(* JavaScript types can be compared: k is the typeof tag, with arrays and  *)
(* null told apart from other objects.                                     *)
(***************************************************************************)
Undef == [k |-> "undef", s |-> <<>>, n |-> 0, b |-> FALSE, o |-> <<>>]
Null == [k |-> "null", s |-> <<>>, n |-> 0, b |-> FALSE, o |-> <<>>]
Str(s) == [k |-> "str", s |-> s, n |-> 0, b |-> FALSE, o |-> <<>>]
Num(n) == [k |-> "num", s |-> <<>>, n |-> n, b |-> FALSE, o |-> <<>>]
Bool(b) == [k |-> "bool", s |-> <<>>, n |-> 0, b |-> b, o |-> <<>>]
\* an object: o maps its keys to values
Obj(f) == [k |-> "obj", s |-> <<>>, n |-> 0, b |-> FALSE, o |-> f]
EmptyObj == Obj(<<>>)
\* an array: o is the sequence of its elements
Arr(a) == [k |-> "arr", s |-> <<>>, n |-> 0, b |-> FALSE, o |-> a]
\* the outcome of an expression that throws
Thrown == [k |-> "throw", s |-> <<>>, n |-> 0, b |-> FALSE, o |-> <<>>]

Digits == <<"0", "1", "2", "3", "4", "5", "6", "7", "8", "9">>
IsDigit(c) == \E i \in 1..10 : Digits[i] = c
DigitValue(c) == (CHOOSE i \in 1..10 : Digits[i] = c) - 1
K_length == <<"l", "e", "n", "g", "t", "h">>

\* property access v[key]; undefined when v has no such property
Get(v, key) ==
  IF v.k = "obj" THEN (IF key \in DOMAIN v.o THEN v.o[key] ELSE Undef)
  ELSE IF v.k = "arr"
  THEN (IF key = K_length THEN Num(Len(v.o))
        ELSE IF Len(key) = 1 /\ IsDigit(key[1]) /\ DigitValue(key[1]) < Len(v.o)
        THEN v.o[DigitValue(key[1]) + 1]
        ELSE Undef)
  ELSE Undef

\* the names the code spells out, as character tuples
PARAMS == <<"p", "a", "r", "a", "m", "s">>
QUERY == <<"q", "u", "e", "r", "y">>
BODY == <<"b", "o", "d", "y">>
HEADERS == <<"h", "e", "a", "d", "e", "r", "s">>

\* JavaScript ===: equality of scalars; an object or array of a configuration
\* is never the same object as one of a request or a data file
StrictEq(a, b) == a.k \notin {"obj", "arr"} /\ a = b

\* String.prototype.startsWith / endsWith / includes
StartsWith(s, p) == Len(p) <= Len(s) /\ SubSeq(s, 1, Len(p)) = p
EndsWith(s, p) == Len(p) <= Len(s) /\ SubSeq(s, Len(s) - Len(p) + 1, Len(s)) = p
Includes(s, p) == \E i \in 0..(Len(s) - Len(p)) : SubSeq(s, i + 1, i + Len(p)) = p

\* the characters of a method name
MethodChars(m) ==
  CASE m = "GET" -> <<"G", "E", "T">>
    [] m = "POST" -> <<"P", "O", "S", "T">>
    [] m = "get" -> <<"g", "e", "t">>
    [] OTHER -> <<>>

\* String.prototype.toUpperCase on the method names in use
ToUpperCase(m) ==
  CASE m = "get" -> "GET"
    [] m = "post" -> "POST"
    [] OTHER -> m

(***************************************************************************)
(* RequestMatcher.matchesPath: the pattern is turned into a regular        *)
(* expression, ':' followed by one or more non-'/' characters becoming the *)
(* group ([^/]+), '/' being escaped and every other character copied into  *)
(* the expression as it is (so '.' keeps its regex meaning).               *)
(***************************************************************************)
\* length of the run of non-'/' characters of s starting at position i
RECURSIVE RunLen(_, _)
RunLen(s, i) ==
  IF i > Len(s) \/ s[i] = "/" THEN 0 ELSE 1 + RunLen(s, i + 1)

\* the regex tokens of configPath from position i on
RECURSIVE RegexTokens(_, _)
RegexTokens(p, i) ==
  IF i > Len(p) THEN <<>>
  ELSE IF p[i] = ":" /\ RunLen(p, i + 1) > 0
       THEN <<[t |-> "grp", c |-> ""]>> \o RegexTokens(p, i + 1 + RunLen(p, i + 1))
  ELSE IF p[i] = "."
       THEN <<[t |-> "any", c |-> ""]>> \o RegexTokens(p, i + 1)
  ELSE <<[t |-> "lit", c |-> p[i]]>> \o RegexTokens(p, i + 1)

\* anchored match of the token list against the characters of s
RECURSIVE RegexTest(_, _)
RegexTest(toks, s) ==
  IF toks = <<>> THEN s = <<>>
  ELSE LET t == Head(toks) IN
    IF t.t = "grp"
    THEN \E n \in 1..Len(s) :
           /\ \A j \in 1..n : s[j] # "/"
           /\ RegexTest(Tail(toks), SubSeq(s, n + 1, Len(s)))
    ELSE /\ s # <<>>
         /\ (t.t = "any" \/ Head(s) = t.c)
         /\ RegexTest(Tail(toks), Tail(s))

matchesPath(configPath, requestPath) ==
  RegexTest(RegexTokens(configPath, 1), requestPath)

matchesRoute(config, method, requestPath) ==
  IF ToUpperCase(config.method) # ToUpperCase(method) THEN FALSE
  ELSE matchesPath(config.path, requestPath)

\* String.prototype.split(sep) for a one-character separator
RECURSIVE SplitFrom(_, _, _, _)
SplitFrom(s, sep, i, cur) ==
  IF i > Len(s) THEN <<cur>>
  ELSE IF s[i] = sep THEN <<cur>> \o SplitFrom(s, sep, i + 1, <<>>)
  ELSE SplitFrom(s, sep, i + 1, Append(cur, s[i]))

Split(s, sep) == SplitFrom(s, sep, 1, <<>>)

\* RequestMatcher.extractPathParams: the set of <<name, value>> bindings
extractPathParams(configPath, requestPath) ==
  LET cs == Split(configPath, "/")
      rs == Split(requestPath, "/")
  IN IF Len(cs) # Len(rs) THEN {}
     ELSE {<<Tail(cs[i]), rs[i]>> : i \in {j \in 1..Len(cs) : cs[j] # <<>> /\ Head(cs[j]) = ":"}}

(***************************************************************************)
(* ConditionEvaluator.  A condition node is a record                       *)
(*   [hasAnd, and, hasOr, or, hasNot, not, fields]                         *)
(* where and/or are the lists under $and/$or, not holds the node under     *)
(* $not (a list of at most one node) and fields is the list of the other   *)
(* entries [key, exp] in Object.entries order; key is the dotted key, exp  *)
(* the expected value                                                      *)
(*   [kind |-> "lit" | "ops" | "other", lit, ops].                         *)
(***************************************************************************)
NoOps ==
  [hasExists |-> FALSE, exists |-> FALSE, hasEquals |-> FALSE, equals |-> Undef,
   hasNot |-> FALSE, not |-> Undef, hasContains |-> FALSE, contains |-> <<>>,
   hasStartsWith |-> FALSE, startsWith |-> <<>>, hasEndsWith |-> FALSE, endsWith |-> <<>>,
   hasGreaterThan |-> FALSE, greaterThan |-> 0, hasLessThan |-> FALSE, lessThan |-> 0,
   hasIn |-> FALSE, in |-> <<>>]

Lit(v) == [kind |-> "lit", lit |-> v, ops |-> NoOps]
Ops(o) == [kind |-> "ops", lit |-> Undef, ops |-> o]

FieldMap(entries) ==
  [hasAnd |-> FALSE, and |-> <<>>, hasOr |-> FALSE, or |-> <<>>,
   hasNot |-> FALSE, not |-> <<>>, fields |-> entries]

AndNode(list) == [FieldMap(<<>>) EXCEPT !.hasAnd = TRUE, !.and = list]
OrNode(list) == [FieldMap(<<>>) EXCEPT !.hasOr = TRUE, !.or = list]
NotNode(node) == [FieldMap(<<>>) EXCEPT !.hasNot = TRUE, !.not = <<node>>]

\* the loop "for (const part of parts)" over a nested object
RECURSIVE WalkParts(_, _, _)
WalkParts(current, parts, i) ==
  IF i > Len(parts) THEN current
  ELSE IF current.k \in {"obj", "arr"} THEN WalkParts(Get(current, parts[i]), parts, i + 1)
  ELSE Undef

getValueFromContext(key, context) ==
  LET parts == Split(key, ".") IN
  IF Len(parts) = 2 /\ parts[1] \in {PARAMS, QUERY, BODY, HEADERS}
  THEN Get(Get(context, parts[1]), parts[2])
  ELSE IF Len(parts) > 2 THEN WalkParts(context, parts, 1)
  ELSE Undef

matchesCondition(actualValue, expectedValue) ==
  IF expectedValue.kind = "lit" THEN StrictEq(actualValue, expectedValue.lit)
  ELSE IF expectedValue.kind = "ops" THEN
    LET condition == expectedValue.ops IN
    IF condition.hasExists
    THEN condition.exists = (actualValue.k # "undef" /\ actualValue.k # "null" /\ actualValue # Str(<<>>))
    ELSE IF condition.hasEquals THEN StrictEq(actualValue, condition.equals)
    ELSE IF condition.hasNot THEN ~StrictEq(actualValue, condition.not)
    ELSE IF condition.hasContains /\ actualValue.k = "str"
    THEN Includes(actualValue.s, condition.contains)
    ELSE IF condition.hasStartsWith /\ actualValue.k = "str"
    THEN StartsWith(actualValue.s, condition.startsWith)
    ELSE IF condition.hasEndsWith /\ actualValue.k = "str"
    THEN EndsWith(actualValue.s, condition.endsWith)
    ELSE IF condition.hasGreaterThan /\ actualValue.k = "num"
    THEN actualValue.n > condition.greaterThan
    ELSE IF condition.hasLessThan /\ actualValue.k = "num"
    THEN actualValue.n < condition.lessThan
    ELSE IF condition.hasIn
    THEN \E i \in 1..Len(condition.in) : StrictEq(condition.in[i], actualValue)
    ELSE FALSE
  ELSE FALSE

\* variant: $or is looked at before $and
RECURSIVE evaluate_orFirst(_, _)
evaluate_orFirst(condition, context) ==
  IF condition.hasOr
  THEN \E i \in 1..Len(condition.or) : evaluate_orFirst(condition.or[i], context)
  ELSE IF condition.hasAnd
  THEN \A i \in 1..Len(condition.and) : evaluate_orFirst(condition.and[i], context)
  ELSE IF condition.hasNot
  THEN ~evaluate_orFirst(condition.not[1], context)
  ELSE \A i \in 1..Len(condition.fields) :
         matchesCondition(getValueFromContext(condition.fields[i].key, context),
                          condition.fields[i].exp)

\* variant: $or asks every member to hold
RECURSIVE evaluate_orEvery(_, _)
evaluate_orEvery(condition, context) ==
  IF condition.hasAnd
  THEN \A i \in 1..Len(condition.and) : evaluate_orEvery(condition.and[i], context)
  ELSE IF condition.hasOr
  THEN \A i \in 1..Len(condition.or) : evaluate_orEvery(condition.or[i], context)
  ELSE IF condition.hasNot
  THEN ~evaluate_orEvery(condition.not[1], context)
  ELSE \A i \in 1..Len(condition.fields) :
         matchesCondition(getValueFromContext(condition.fields[i].key, context),
                          condition.fields[i].exp)

RECURSIVE evaluate(_, _)
evaluate(condition, context) ==
  IF condition.hasAnd
  THEN \A i \in 1..Len(condition.and) : evaluate(condition.and[i], context)
  ELSE IF condition.hasOr
  THEN \E i \in 1..Len(condition.or) : evaluate(condition.or[i], context)
  ELSE IF condition.hasNot
  THEN ~evaluate(condition.not[1], context)
  ELSE \A i \in 1..Len(condition.fields) :
         matchesCondition(getValueFromContext(condition.fields[i].key, context),
                          condition.fields[i].exp)

(***************************************************************************)
(* TemplateEngine.  sys gives, for each system variable name, the value    *)
(* its generator produces.                                                 *)
(***************************************************************************)
SystemVariableNames ==
  {<<"c", "u", "r", "r", "e", "n", "t", "T", "i", "m", "e", "s", "t", "a", "m", "p">>,
   <<"c", "u", "r", "r", "e", "n", "t", "D", "a", "t", "e">>,
   <<"g", "e", "n", "e", "r", "a", "t", "e", "I", "d">>,
   <<"r", "a", "n", "d", "o", "m", "N", "u", "m", "b", "e", "r">>,
   <<"r", "a", "n", "d", "o", "m", "E", "m", "a", "i", "l">>}

\* String.prototype.trim
RECURSIVE Trim(_)
Trim(s) ==
  IF s # <<>> /\ Head(s) = " " THEN Trim(Tail(s))
  ELSE IF s # <<>> /\ s[Len(s)] = " " THEN Trim(SubSeq(s, 1, Len(s) - 1))
  ELSE s

\* String(n) for an integer
RECURSIVE NumToStr(_)
NumToStr(n) ==
  IF n < 0 THEN <<"-">> \o NumToStr(0 - n)
  ELSE IF n < 10 THEN <<Digits[n + 1]>>
  ELSE NumToStr(n \div 10) \o NumToStr(n % 10)

\* String(value); an array is joined with ',', null and undefined elements as ''
RECURSIVE StringOf(_)
RECURSIVE JoinFrom(_, _)
JoinFrom(a, i) ==
  IF i > Len(a) THEN <<>>
  ELSE (IF i > 1 THEN <<",">> ELSE <<>>)
       \o (IF a[i].k \in {"null", "undef"} THEN <<>> ELSE StringOf(a[i]))
       \o JoinFrom(a, i + 1)

StringOf(v) ==
  CASE v.k = "str" -> v.s
    [] v.k = "num" -> NumToStr(v.n)
    [] v.k = "bool" -> IF v.b THEN <<"t", "r", "u", "e">> ELSE <<"f", "a", "l", "s", "e">>
    [] v.k = "null" -> <<"n", "u", "l", "l">>
    [] v.k = "undef" -> <<"u", "n", "d", "e", "f", "i", "n", "e", "d">>
    [] v.k = "arr" -> JoinFrom(v.o, 1)
    [] OTHER -> <<"[", "o", "b", "j", "e", "c", "t", " ", "O", "b", "j", "e", "c", "t", "]">>

\* the own enumerable properties a spread { ...v } copies
Spread(v) ==
  CASE v.k = "obj" -> v.o
    [] v.k = "arr" -> [key \in {NumToStr(i - 1) : i \in 1..Len(v.o)} |->
                         v.o[CHOOSE i \in 1..Len(v.o) : NumToStr(i - 1) = key]]
    [] v.k = "str" -> [key \in {NumToStr(i - 1) : i \in 1..Len(v.s)} |->
                         Str(<<v.s[CHOOSE i \in 1..Len(v.s) : NumToStr(i - 1) = key]>>)]
    [] OTHER -> <<>>

\* systemVariables is an object literal: a lookup by name also finds the members
\* it inherits from Object.prototype.  Called as systemVariables[name](),
\* toString gives '[object Object]', constructor a new empty object, and
\* __proto__ (an object, not a function) throws a TypeError.
N_toString == <<"t", "o", "S", "t", "r", "i", "n", "g">>
N_constructor == <<"c", "o", "n", "s", "t", "r", "u", "c", "t", "o", "r">>
N_proto == <<"_", "_", "p", "r", "o", "t", "o", "_", "_">>
InheritedNames == {N_toString, N_constructor, N_proto}
CallInherited(name) ==
  CASE name = N_toString -> Str(<<"[", "o", "b", "j", "e", "c", "t", " ", "O", "b", "j", "e", "c", "t", "]">>)
    [] name = N_constructor -> EmptyObj
    [] OTHER -> Thrown

resolveVariable(variable, context, sys) ==
  IF variable \in SystemVariableNames THEN sys[variable]
  ELSE IF variable \in InheritedNames THEN CallInherited(variable)
  ELSE LET parts == Split(variable, ".") IN
    IF Len(parts) = 2 /\ parts[1] \in {PARAMS, QUERY, BODY, HEADERS}
    THEN Get(Get(context, parts[1]), parts[2])
    ELSE IF Len(parts) > 2 THEN WalkParts(context, parts, 1)
    ELSE Undef

\* length of the run of characters other than '}' of s starting at i
RECURSIVE RunNotBrace(_, _)
RunNotBrace(s, i) ==
  IF i > Len(s) \/ s[i] = "}" THEN 0 ELSE 1 + RunNotBrace(s, i + 1)

\* a match of \{\{([^}]+)\}\} starts at position i of s
PlaceholderAt(s, i) ==
  /\ i + 1 <= Len(s) /\ s[i] = "{" /\ s[i + 1] = "{"
  /\ RunNotBrace(s, i + 2) > 0
  /\ i + 3 + RunNotBrace(s, i + 2) <= Len(s)
  /\ s[i + 2 + RunNotBrace(s, i + 2)] = "}"
  /\ s[i + 3 + RunNotBrace(s, i + 2)] = "}"

\* str.replace(/\{\{([^}]+)\}\}/g, ...) from position i on
RECURSIVE ReplaceFrom(_, _, _, _)
ReplaceFrom(str, i, context, sys) ==
  IF i > Len(str) THEN <<>>
  ELSE IF PlaceholderAt(str, i)
  THEN LET run == RunNotBrace(str, i + 2)
           value == resolveVariable(Trim(SubSeq(str, i + 2, i + 1 + run)), context, sys)
       IN (IF value.k # "undef" THEN StringOf(value) ELSE SubSeq(str, i, i + 3 + run))
          \o ReplaceFrom(str, i + 4 + run, context, sys)
  ELSE <<str[i]>> \o ReplaceFrom(str, i + 1, context, sys)

\* the replace callback throws for some match of str from position i on
RECURSIVE ReplaceThrows(_, _, _, _)
ReplaceThrows(str, i, context, sys) ==
  IF i > Len(str) THEN FALSE
  ELSE IF PlaceholderAt(str, i)
  THEN LET run == RunNotBrace(str, i + 2) IN
       \/ resolveVariable(Trim(SubSeq(str, i + 2, i + 1 + run)), context, sys) = Thrown
       \/ ReplaceThrows(str, i + 4 + run, context, sys)
  ELSE ReplaceThrows(str, i + 1, context, sys)

\* /^\{\{([^}]+)\}\}$/ matches str
FullMatch(str) == PlaceholderAt(str, 1) /\ 4 + RunNotBrace(str, 3) = Len(str)

\* replaceVariables throws: resolveVariable does, for the sole or for some placeholder
replaceVariablesThrows(str, context, sys) ==
  IF FullMatch(str)
  THEN resolveVariable(Trim(SubSeq(str, 3, Len(str) - 2)), context, sys) = Thrown
  ELSE ReplaceThrows(str, 1, context, sys)

\* variant: a sole placeholder goes through the string replacement too
replaceVariables_alwaysString(str, context, sys) ==
  Str(ReplaceFrom(str, 1, context, sys))

\* what replaceVariables returns when it does not throw
replaceVariables(str, context, sys) ==
  IF FullMatch(str)
  THEN LET value == resolveVariable(Trim(SubSeq(str, 3, Len(str) - 2)), context, sys)
       IN IF value.k # "undef" THEN value ELSE Str(str)
  ELSE Str(ReplaceFrom(str, 1, context, sys))

\* processTemplate throws: some string inside template makes replaceVariables throw
RECURSIVE processTemplateThrows(_, _, _)
processTemplateThrows(template, context, sys) ==
  IF template.k = "str" THEN replaceVariablesThrows(template.s, context, sys)
  ELSE IF template.k \in {"arr", "obj"}
  THEN \E key \in DOMAIN template.o : processTemplateThrows(template.o[key], context, sys)
  ELSE FALSE

\* variant: no branch for arrays, an array is rebuilt as an object
RECURSIVE processTemplateValue_arrayAsObject(_, _, _)
processTemplateValue_arrayAsObject(template, context, sys) ==
  IF template.k = "str" THEN replaceVariables(template.s, context, sys)
  ELSE IF template.k \in {"arr", "obj"}
  THEN Obj([key \in DOMAIN Spread(template) |->
              processTemplateValue_arrayAsObject(Spread(template)[key], context, sys)])
  ELSE template

\* what processTemplate returns when it does not throw
RECURSIVE processTemplateValue(_, _, _)
processTemplateValue(template, context, sys) ==
  IF template.k = "str" THEN replaceVariables(template.s, context, sys)
  ELSE IF template.k = "arr"
  THEN Arr([i \in DOMAIN template.o |-> processTemplateValue(template.o[i], context, sys)])
  ELSE IF template.k = "obj"
  THEN Obj([key \in DOMAIN template.o |-> processTemplateValue(template.o[key], context, sys)])
  ELSE template

processTemplate(template, context, sys) ==
  IF processTemplateThrows(template, context, sys) THEN Thrown
  ELSE processTemplateValue(template, context, sys)

\* TemplateEngine.hasTemplateVariables
RECURSIVE hasTemplateVariables(_)
hasTemplateVariables(obj) ==
  IF obj.k = "str" THEN \E i \in 1..Len(obj.s) : PlaceholderAt(obj.s, i)
  ELSE IF obj.k \in {"arr", "obj"}
  THEN \E key \in DOMAIN obj.o : hasTemplateVariables(obj.o[key])
  ELSE FALSE

(***************************************************************************)
(* Response specifications (RouteResponse) and route configurations.       *)
(* An optional member that is absent is marked by present/has... = FALSE,  *)
(* an absent scalar by Undef, an absent dataFile by the empty string; the  *)
(* filter, limit and dynamicFields of a body are JSON values, Undef when   *)
(* absent.                                                                 *)
(***************************************************************************)
NoLatency ==
  [present |-> FALSE, enabled |-> FALSE, hasDelay |-> FALSE, delay |-> 0,
   hasMin |-> FALSE, min |-> 0, hasMax |-> FALSE, max |-> 0]
LatencyDelay(e, d) ==
  [present |-> TRUE, enabled |-> e, hasDelay |-> TRUE, delay |-> d,
   hasMin |-> FALSE, min |-> 0, hasMax |-> FALSE, max |-> 0]
LatencyRange(e, lo, hi) ==
  [present |-> TRUE, enabled |-> e, hasDelay |-> FALSE, delay |-> 0,
   hasMin |-> TRUE, min |-> lo, hasMax |-> TRUE, max |-> hi]
LatencyOnly(e) ==
  [present |-> TRUE, enabled |-> e, hasDelay |-> FALSE, delay |-> 0,
   hasMin |-> FALSE, min |-> 0, hasMax |-> FALSE, max |-> 0]

NoConnectionFailure == [present |-> FALSE, type |-> "", delay |-> 0]
ConnectionFailure(type, delay) == [present |-> TRUE, type |-> type, delay |-> delay]

ResponseBody(data, dataFile, filter, limit, dynamicFields) ==
  [data |-> data, dataFile |-> dataFile, filter |-> filter, limit |-> limit,
   dynamicFields |-> dynamicFields, other |-> <<>>]
\* a body that also has members of other names, such as message
BodyWith(body, other) == [body EXCEPT !.other = other]
BodyData(v) == ResponseBody(v, <<>>, Undef, Undef, Undef)
BodyFile(f) == ResponseBody(Undef, f, Undef, Undef, Undef)

RouteResponse(statusCode, body, latency, timeout, connectionFailure) ==
  [present |-> TRUE, statusCode |-> statusCode, body |-> body, latency |-> latency,
   timeout |-> timeout, connectionFailure |-> connectionFailure]
\* no response: a missing defaultResponse, or the null of findMatchingCondition
NoResponse ==
  [present |-> FALSE, statusCode |-> 0, body |-> BodyData(Undef), latency |-> NoLatency,
   timeout |-> Undef, connectionFailure |-> NoConnectionFailure]

\* JavaScript truthiness
Truthy(v) ==
  CASE v.k = "str" -> v.s # <<>>
    [] v.k = "num" -> v.n # 0
    [] v.k = "bool" -> v.b
    [] v.k \in {"obj", "arr"} -> TRUE
    [] OTHER -> FALSE

K_data == <<"d", "a", "t", "a">>
K_error == <<"e", "r", "r", "o", "r">>
K_message == <<"m", "e", "s", "s", "a", "g", "e">>
K_method == <<"m", "e", "t", "h", "o", "d">>
K_path == <<"p", "a", "t", "h">>
K_query == <<"q", "u", "e", "r", "y">>

(***************************************************************************)
(* ConditionEvaluator.findMatchingCondition and the RequestMatcher.        *)
(***************************************************************************)
RECURSIVE findMatchingConditionFrom(_, _, _)
findMatchingConditionFrom(conditions, context, i) ==
  IF i > Len(conditions) THEN NoResponse
  ELSE IF evaluate(conditions[i].when, context) THEN conditions[i].response
  ELSE findMatchingConditionFrom(conditions, context, i + 1)

\* variant: the scan starts at the second rule
findMatchingCondition_fromSecond(conditions, context) ==
  findMatchingConditionFrom(conditions, context, 2)

findMatchingCondition(conditions, context) ==
  findMatchingConditionFrom(conditions, context, 1)

findMatchingResponse(config, templateContext) ==
  IF Len(config.conditions) > 0
       /\ findMatchingCondition(config.conditions, templateContext).present
  THEN findMatchingCondition(config.conditions, templateContext)
  ELSE config.defaultResponse

\* TemplateEngine.createContextFromRequest
createContextFromRequest(q) ==
  Obj((PARAMS :> q.params) @@ (QUERY :> q.query) @@ (BODY :> q.body) @@ (HEADERS :> q.headers))

NoMatch ==
  [found |-> FALSE, config |-> 0, matchedResponse |-> NoResponse, templateContext |-> Undef]

\* the loop of findMatchingRoute over allConfigs from index i on
RECURSIVE findMatchingRouteFrom(_, _, _)
findMatchingRouteFrom(allConfigs, q, i) ==
  IF i > Len(allConfigs) THEN NoMatch
  ELSE IF matchesRoute(allConfigs[i], q.method, q.path)
            /\ findMatchingResponse(allConfigs[i], createContextFromRequest(q)).present
  THEN [found |-> TRUE, config |-> i,
        matchedResponse |-> findMatchingResponse(allConfigs[i], createContextFromRequest(q)),
        templateContext |-> createContextFromRequest(q)]
  ELSE findMatchingRouteFrom(allConfigs, q, i + 1)

\* variant: the scan does not stop at the first match, the last match wins
RECURSIVE findMatchingRouteFrom_lastMatch(_, _, _)
findMatchingRouteFrom_lastMatch(allConfigs, q, i) ==
  IF i > Len(allConfigs) THEN NoMatch
  ELSE IF findMatchingRouteFrom_lastMatch(allConfigs, q, i + 1).found
  THEN findMatchingRouteFrom_lastMatch(allConfigs, q, i + 1)
  ELSE IF matchesRoute(allConfigs[i], q.method, q.path)
            /\ findMatchingResponse(allConfigs[i], createContextFromRequest(q)).present
  THEN [found |-> TRUE, config |-> i,
        matchedResponse |-> findMatchingResponse(allConfigs[i], createContextFromRequest(q)),
        templateContext |-> createContextFromRequest(q)]
  ELSE NoMatch

findMatchingRoute_lastMatch(allConfigs, q) ==
  findMatchingRouteFrom_lastMatch(allConfigs, q, 1)

findMatchingRoute(allConfigs, q) == findMatchingRouteFrom(allConfigs, q, 1)

(***************************************************************************)
(* ResponseProcessor: latency, body assembly.                              *)
(***************************************************************************)
DefaultTimeout == 5000

\* largest latency bound in the configurations of the model
MaxDelay == 2

\* Math.floor(Math.random() * (max - min + 1)) + min, Math.random() in [0, 1)
\* variant: the upper bound is never drawn
RandomInt_belowMax(min, max) ==
  IF max - min + 1 > 0 THEN min..(max - 1) ELSE (max + 1)..min

\* Math.floor(Math.random() * (max - min + 1)) + min, Math.random() in [0, 1)
RandomInt(min, max) ==
  IF max - min + 1 > 0 THEN min..max ELSE (max + 1)..min

\* variant: the global range is used whether or not the global latency is enabled
LatencyDelays_globalAlways(response, global) ==
  LET latencyConfig == response.latency IN
  IF ~latencyConfig.present \/ ~latencyConfig.enabled THEN {0}
  ELSE IF latencyConfig.hasDelay THEN {latencyConfig.delay}
  ELSE IF latencyConfig.hasMin /\ latencyConfig.hasMax
  THEN RandomInt(latencyConfig.min, latencyConfig.max)
  ELSE RandomInt(global.defaults.latency.min, global.defaults.latency.max)

\* the delays applyLatency can compute for a response
LatencyDelays(response, global) ==
  LET latencyConfig == response.latency IN
  IF ~latencyConfig.present \/ ~latencyConfig.enabled THEN {0}
  ELSE IF latencyConfig.hasDelay THEN {latencyConfig.delay}
  ELSE IF latencyConfig.hasMin /\ latencyConfig.hasMax
  THEN RandomInt(latencyConfig.min, latencyConfig.max)
  ELSE IF global.defaults.latency.enabled
  THEN RandomInt(global.defaults.latency.min, global.defaults.latency.max)
  ELSE {0}

\* how long applyLatency suspends the handler: setTimeout only for delay > 0
LatencyWait(delay) == IF delay > 0 THEN delay ELSE 0

\* variant: an item is kept when some filter key agrees
filterData_anyKey(data, filter) ==
  IF data.k # "arr" THEN data
  ELSE IF DOMAIN filter.o # {} /\ \E i \in 1..Len(data.o) : data.o[i].k \in {"null", "undef"}
  THEN Thrown
  ELSE Arr(SelectSeq(data.o,
                     LAMBDA item : \E key \in DOMAIN filter.o :
                                     StrictEq(Get(item, key), filter.o[key])))

\* ResponseProcessor.filterData; reading a field of a null item throws
filterData(data, filter) ==
  IF data.k # "arr" THEN data
  ELSE IF DOMAIN filter.o # {} /\ \E i \in 1..Len(data.o) : data.o[i].k \in {"null", "undef"}
  THEN Thrown
  ELSE Arr(SelectSeq(data.o,
                     LAMBDA item : \A key \in DOMAIN filter.o :
                                     StrictEq(Get(item, key), filter.o[key])))

\* parseInt(String(v), 10): NaN, or the integer an optional sign and a run of
\* digits at the start of the text denote
RECURSIVE DigitRun(_, _)
DigitRun(s, i) == IF i > Len(s) \/ ~IsDigit(s[i]) THEN 0 ELSE 1 + DigitRun(s, i + 1)

RECURSIVE DigitsValue(_, _, _)
DigitsValue(s, i, n) ==
  IF n = 0 THEN 0 ELSE 10 * DigitsValue(s, i, n - 1) + DigitValue(s[i + n - 1])

RECURSIVE TrimStart(_)
TrimStart(s) == IF s # <<>> /\ Head(s) = " " THEN TrimStart(Tail(s)) ELSE s

ParseInt(v) ==
  LET s == TrimStart(StringOf(v))
      signed == s # <<>> /\ Head(s) \in {"+", "-"}
      first == IF signed THEN 2 ELSE 1
      run == DigitRun(s, first)
  IN IF run = 0 THEN [nan |-> TRUE, n |-> 0]
     ELSE [nan |-> FALSE,
           n |-> IF signed /\ Head(s) = "-" THEN 0 - DigitsValue(s, first, run)
                 ELSE DigitsValue(s, first, run)]

\* Array.prototype.slice(0, n) for n > 0
Slice(a, n) == SubSeq(a, 1, IF n < Len(a) THEN n ELSE Len(a))

\* variant: the parsed limit is not asked to be positive
applyLimit_anyNumber(responseData, limit, templateContext, sys) ==
  IF ~(Truthy(limit) /\ responseData.k = "arr") THEN responseData
  ELSE IF limit.k = "str"
  THEN IF processTemplateThrows(limit, templateContext, sys) THEN Thrown
       ELSE IF ~ParseInt(processTemplateValue(limit, templateContext, sys)).nan
                 /\ ParseInt(processTemplateValue(limit, templateContext, sys)).n >= 0
       THEN Arr(Slice(responseData.o, ParseInt(processTemplateValue(limit, templateContext, sys)).n))
       ELSE responseData
  ELSE IF limit.k = "num" /\ limit.n > 0 THEN Arr(Slice(responseData.o, limit.n))
  ELSE responseData

\* the limit block of processResponseBody
applyLimit(responseData, limit, templateContext, sys) ==
  IF ~(Truthy(limit) /\ responseData.k = "arr") THEN responseData
  ELSE IF limit.k = "str"
  THEN IF processTemplateThrows(limit, templateContext, sys) THEN Thrown
       ELSE IF ~ParseInt(processTemplateValue(limit, templateContext, sys)).nan
                 /\ ParseInt(processTemplateValue(limit, templateContext, sys)).n > 0
       THEN Arr(Slice(responseData.o, ParseInt(processTemplateValue(limit, templateContext, sys)).n))
       ELSE responseData
  ELSE IF limit.k = "num" /\ limit.n > 0 THEN Arr(Slice(responseData.o, limit.n))
  ELSE responseData

\* { ...item, ...dynamicFields }
Merge(item, dynamicFields) == Obj(Spread(dynamicFields) @@ Spread(item))

\* the dynamicFields block of processResponseBody
applyDynamicFields(responseData, dynamicFields) ==
  IF ~Truthy(dynamicFields) THEN responseData
  ELSE IF responseData.k = "arr"
  THEN Arr([i \in DOMAIN responseData.o |-> Merge(responseData.o[i], dynamicFields)])
  ELSE Merge(responseData, dynamicFields)

\* the data file block of processResponseBody once loadDataFile has returned fileData
fromDataFile(body, fileData, templateContext, sys) ==
  LET responseData == IF Truthy(body.filter) THEN filterData(fileData, body.filter)
                      ELSE fileData
  IN IF responseData = Thrown THEN Thrown
     ELSE applyLimit(responseData, body.limit, templateContext, sys)

\* variant: without data and dataFile the other members of the body are the data
responseDataOf_otherMembers(body, templateContext, fileData, sys) ==
  IF body.dataFile # <<>> THEN fromDataFile(body, fileData, templateContext, sys)
  ELSE IF body.data.k # "undef" THEN body.data
  ELSE Obj(body.other)

\* the result of processResponseBody before the dynamicFields, fileData being
\* what loadDataFile returned
responseDataOf(body, templateContext, fileData, sys) ==
  IF body.dataFile # <<>> THEN fromDataFile(body, fileData, templateContext, sys)
  ELSE IF body.data.k # "undef" THEN body.data
  ELSE EmptyObj

\* the data the dynamicFields were merged into (each step computed once);
\* Thrown when filterData or the limit's template throws
mergedDataOf(body, templateContext, fileData, sys) ==
  CHOOSE merged \in {IF responseData = Thrown THEN Thrown
                     ELSE applyDynamicFields(responseData, body.dynamicFields) :
                     responseData \in {responseDataOf(body, templateContext, fileData, sys)}} : TRUE

\* processResponseBody throws
processResponseBodyThrows(body, templateContext, fileData, sys) ==
  \E merged \in {mergedDataOf(body, templateContext, fileData, sys)} :
    merged = Thrown \/ processTemplateThrows(merged, templateContext, sys)

\* what processResponseBody returns when it does not throw
processResponseBodyValue(body, templateContext, fileData, sys) ==
  CHOOSE result \in {IF body.dataFile # <<>> \/ Truthy(body.data)
                     THEN Obj(K_data :> processTemplateValue(merged, templateContext, sys))
                     ELSE processTemplateValue(merged, templateContext, sys) :
                     merged \in {mergedDataOf(body, templateContext, fileData, sys)}} : TRUE

\* processResponseBody once loadDataFile has returned fileData; Thrown when it throws
processResponseBody(body, templateContext, fileData, sys) ==
  IF processResponseBodyThrows(body, templateContext, fileData, sys) THEN Thrown
  ELSE processResponseBodyValue(body, templateContext, fileData, sys)

NotFoundBody(q) ==
  Obj((K_error :> Str(<<"R", "o", "u", "t", "e", " ", "n", "o", "t", " ", "f", "o", "u", "n", "d">>)) @@ (K_method :> Str(MethodChars(q.method)))
      @@ (K_path :> Str(q.path)))

ProcessorErrorBody ==
  Obj((K_error :> Str(<<"I", "n", "t", "e", "r", "n", "a", "l", " ", "s", "e", "r", "v", "e", "r", " ", "e", "r", "r", "o", "r">>))
      @@ (K_message :> Str(<<"F", "a", "i", "l", "e", "d", " ", "t", "o", " ", "p", "r", "o", "c", "e", "s", "s", " ", "r", "e", "s", "p", "o", "n", "s", "e">>)))

InvalidFailureBody ==
  Obj(K_error :> Str(<<"I", "n", "v", "a", "l", "i", "d", " ", "c", "o", "n", "n", "e", "c", "t", "i", "o", "n", " ", "f", "a", "i", "l", "u", "r", "e", " ", "c", "o", "n", "f", "i", "g", "u", "r", "a", "t", "i", "o", "n">>))

TimeoutBody(q, timeout) ==
  Obj((K_error :> Str(<<"R", "e", "q", "u", "e", "s", "t", " ", "t", "i", "m", "e", "o", "u", "t">>))
      @@ (K_message :> Str(<<"R", "e", "q", "u", "e", "s", "t", " ", "t", "i", "m", "e", "d", " ", "o", "u", "t", " ", "a", "f", "t", "e", "r", " ">>
                           \o NumToStr(timeout) \o <<"m", "s">>))
      @@ (K_path :> Str(q.path)) @@ (K_query :> q.query))

(***************************************************************************)
(* The configurations, data files and requests the model runs on.          *)
(***************************************************************************)
P_u == <<"/", "u">>
P_u1 == <<"/", "u", "/", "1">>
P_u2 == <<"/", "u", "/", "2">>
P_uEmpty == <<"/", "u", "/">>
P_uId == <<"/", "u", "/", ":", "i">>
P_v == <<"/", "v", ".", "1">>
P_vx == <<"/", "v", "x", "1">>

F_users == <<"u", "s", "e", "r", "s", ".", "j", "s", "o", "n">>
F_missing == <<"m", "i", "s", "s", "i", "n", "g", ".", "j", "s", "o", "n">>

\* the query parameter t selects the scenario
Q(code) == Obj(<<"t">> :> Str(code))
WhenT(code) == FieldMap(<<[key |-> <<"q", "u", "e", "r", "y", ".", "t">>, exp |-> Lit(Str(code))]>>)
WhenTExists ==
  FieldMap(<<[key |-> <<"q", "u", "e", "r", "y", ".", "t">>, exp |-> Ops([NoOps EXCEPT !.hasExists = TRUE, !.exists = TRUE])]>>)
WhenId(v) == FieldMap(<<[key |-> <<"p", "a", "r", "a", "m", "s", ".", "i">>, exp |-> Lit(Str(v))]>>)

Plain(statusCode, text) ==
  RouteResponse(statusCode, BodyData(Obj(<<"v">> :> Str(text))), NoLatency, Undef, NoConnectionFailure)

ScenarioCodes ==
  {<<"r", "e", "s", "e", "t">>, <<"r", "e", "s", "e", "t", "d">>, <<"s", "i", "l", "e", "n", "t">>, <<"s", "i", "l", "e", "n", "t", "d">>, <<"b", "o", "g", "u", "s">>, <<"t", "t", "r", "u", "e">>, <<"t", "n", "u", "m">>, <<"t", "z", "e", "r", "o">>, <<"t", "f", "a", "l", "s", "e">>,
   <<"d", "e", "l", "a", "y">>, <<"r", "a", "n", "g", "e">>, <<"g", "l", "o", "b", "a", "l">>, <<"o", "f", "f">>, <<"m", "i", "s", "s", "i", "n", "g">>, <<"f", "i", "l", "e">>}

ScenarioResponse(code) ==
  CASE code = <<"r", "e", "s", "e", "t">> ->
         RouteResponse(200, BodyFile(F_users), NoLatency, Bool(TRUE), ConnectionFailure("reset", 0))
    [] code = <<"r", "e", "s", "e", "t", "d">> ->
         RouteResponse(200, BodyFile(F_users), LatencyDelay(TRUE, 3), Num(1), ConnectionFailure("reset", 2))
    [] code = <<"s", "i", "l", "e", "n", "t">> ->
         RouteResponse(200, BodyFile(F_users), NoLatency, Undef, ConnectionFailure("silent", 0))
    [] code = <<"s", "i", "l", "e", "n", "t", "d">> ->
         RouteResponse(200, BodyFile(F_users), NoLatency, Bool(TRUE), ConnectionFailure("silent", 2))
    [] code = <<"b", "o", "g", "u", "s">> ->
         RouteResponse(200, BodyFile(F_users), NoLatency, Undef, ConnectionFailure("bogus", 0))
    [] code = <<"t", "t", "r", "u", "e">> ->
         RouteResponse(200, BodyFile(F_missing), LatencyDelay(TRUE, 2), Bool(TRUE), NoConnectionFailure)
    [] code = <<"t", "n", "u", "m">> ->
         RouteResponse(200, BodyFile(F_users), NoLatency, Num(3), NoConnectionFailure)
    [] code = <<"t", "z", "e", "r", "o">> ->
         RouteResponse(200, BodyFile(F_users), LatencyDelay(TRUE, 2), Num(0), NoConnectionFailure)
    [] code = <<"t", "f", "a", "l", "s", "e">> ->
         RouteResponse(200, BodyFile(F_users), LatencyDelay(TRUE, 2), Bool(FALSE), NoConnectionFailure)
    [] code = <<"d", "e", "l", "a", "y">> ->
         RouteResponse(201, BodyFile(F_users), LatencyDelay(TRUE, 2), Undef, NoConnectionFailure)
    [] code = <<"r", "a", "n", "g", "e">> ->
         RouteResponse(202, BodyData(Obj(<<"v">> :> Str(<<"{", "{", "q", "u", "e", "r", "y", ".", "t", "}", "}">>))), LatencyRange(TRUE, 1, MaxDelay),
                       Undef, NoConnectionFailure)
    [] code = <<"g", "l", "o", "b", "a", "l">> ->
         RouteResponse(203, BodyData(Str(<<"t", "=", "{", "{", "q", "u", "e", "r", "y", ".", "t", "}", "}">>)), LatencyOnly(TRUE), Undef, NoConnectionFailure)
    [] code = <<"o", "f", "f">> ->
         RouteResponse(204, BodyData(Undef), LatencyDelay(FALSE, 2), Undef, NoConnectionFailure)
    [] code = <<"m", "i", "s", "s", "i", "n", "g">> ->
         RouteResponse(200, BodyFile(F_missing), LatencyDelay(TRUE, 1), Undef, NoConnectionFailure)
    [] OTHER ->
         RouteResponse(200, BodyFile(F_users), NoLatency, Undef, NoConnectionFailure)

\* the scenarios as the ordered rules of one route
ScenarioOrder ==
  <<<<"r", "e", "s", "e", "t">>, <<"r", "e", "s", "e", "t", "d">>, <<"s", "i", "l", "e", "n", "t">>, <<"s", "i", "l", "e", "n", "t", "d">>, <<"b", "o", "g", "u", "s">>, <<"t", "t", "r", "u", "e">>, <<"t", "n", "u", "m">>, <<"t", "z", "e", "r", "o">>, <<"t", "f", "a", "l", "s", "e">>,
    <<"d", "e", "l", "a", "y">>, <<"r", "a", "n", "g", "e">>, <<"g", "l", "o", "b", "a", "l">>, <<"o", "f", "f">>, <<"m", "i", "s", "s", "i", "n", "g">>, <<"f", "i", "l", "e">>>>

ScenarioRules ==
  [i \in 1..Len(ScenarioOrder) |->
     [when |-> WhenT(ScenarioOrder[i]), response |-> ScenarioResponse(ScenarioOrder[i])]]

RouteConfig(method, path, conditions, defaultResponse) ==
  [method |-> method, path |-> path, conditions |-> conditions, defaultResponse |-> defaultResponse]

\* fault and latency scenarios on /u, parameter routes behind it
StoreScenarios ==
  <<RouteConfig("GET", P_u, ScenarioRules, Plain(200, <<"l", "i", "s", "t">>)),
    RouteConfig("get", P_uId, <<[when |-> WhenId(<<"1">>), response |-> Plain(200, <<"o", "n", "e">>)]>>,
                Plain(404, <<"n", "o", "n", "e">>)),
    RouteConfig("POST", P_v, <<>>, Plain(201, <<"m", "a", "d", "e">>))>>

\* overlapping rules and overlapping routes
StoreOverlap ==
  <<RouteConfig("GET", P_uId,
                <<[when |-> WhenT(<<"d", "e", "l", "a", "y">>), response |-> Plain(210, <<"f", "i", "r", "s", "t">>)],
                  [when |-> WhenTExists, response |-> Plain(211, <<"s", "e", "c", "o", "n", "d">>)],
                  [when |-> WhenT(<<"r", "a", "n", "g", "e">>), response |-> Plain(212, <<"t", "h", "i", "r", "d">>)]>>,
                Plain(213, <<"f", "a", "l", "l", "b", "a", "c", "k">>)),
    RouteConfig("GET", P_u1, <<>>, Plain(220, <<"e", "x", "a", "c", "t">>)),
    RouteConfig("GET", P_u,
                <<[when |-> FieldMap(<<>>), response |-> Plain(230, <<"a", "l", "w", "a", "y", "s">>)],
                  [when |-> WhenTExists, response |-> Plain(231, <<"n", "e", "v", "e", "r">>)]>>,
                Plain(232, <<"d", "e", "f", "a", "u", "l", "t">>)),
    RouteConfig("GET", P_v, <<>>, Plain(240, <<"d", "o", "t", "t", "e", "d">>))>>

Stores == {StoreScenarios, StoreOverlap}

GlobalConfigs ==
  {[defaults |-> [latency |-> [enabled |-> TRUE, min |-> 1, max |-> MaxDelay]]],
   [defaults |-> [latency |-> [enabled |-> FALSE, min |-> 100, max |-> 500]]]}

UsersBlob == Obj(<<"n">> :> Str(<<"{", "{", "p", "a", "r", "a", "m", "s", ".", "i", "}", "}">>))

Methods == {"GET", "POST"}
Paths == {P_u, P_u1, P_u2, P_uEmpty, P_v, P_vx}
Queries == {EmptyObj} \cup {Q(c) : c \in ScenarioCodes}

\* what the generators of the system variables return
SysValues ==
  {[name \in SystemVariableNames |-> IF name = <<"r", "a", "n", "d", "o", "m", "N", "u", "m", "b", "e", "r">> THEN Num(n) ELSE Str(<<"g">>)] :
     n \in {1, 1000}}

\* one choice of generator values, where they play no part
FixedSys == CHOOSE g \in SysValues : TRUE

Reqs == {"r1"}

(***************************************************************************)
(* State.                                                                  *)
(***************************************************************************)
VARIABLES
  routeConfigs,   \* ConfigLoader.routeConfigs, in Map enumeration order
  globalConfig,   \* ConfigLoader.globalConfig
  files,          \* the JSON files of the data directory, by name
  now,            \* the clock, in ms
  req,            \* the requests: input, position in the middleware chain, res, socket, timer
  call            \* a call of one of the static functions: name, arguments, result

vars == <<routeConfigs, globalConfig, files, now, req, call>>

\* no call of a static function outside the request pipeline
NoCall == [fn |-> "none", arg |-> <<>>, result |-> Undef]

NoTimer == [set |-> FALSE, kind |-> "", due |-> 0, armedAt |-> 0, wait |-> 0]

NoRequest ==
  [pc |-> "none", method |-> "", path |-> <<>>, query |-> EmptyObj, params |-> EmptyObj,
   body |-> EmptyObj, headers |-> EmptyObj, matchResult |-> NoMatch, timer |-> NoTimer,
   res |-> [headersSent |-> FALSE, statusCode |-> 0, body |-> Undef],
   onWire |-> FALSE, sentAt |-> 0, socket |-> "open", sys |-> <<>>, log |-> <<>>]

\* req.params as Express sets it for the mount path '/api/*': only the wildcard capture
ExpressParams(path) == Obj(<<"0">> :> Str(Tail(path)))

Has(log, e) == \E i \in 1..Len(log) : log[i] = e

\* position of the first occurrence of e in log, 0 if there is none
Pos(log, e) == IF Has(log, e) THEN CHOOSE i \in 1..Len(log) : log[i] = e /\ \A j \in 1..(i - 1) : log[j] # e ELSE 0

(***************************************************************************)
(* Steps of one request, as functions of its record q at time t.           *)
(***************************************************************************)
\* res.status(statusCode).json(body)
Send(q, statusCode, body, t) ==
  [q EXCEPT !.res = [headersSent |-> TRUE, statusCode |-> statusCode, body |-> body],
            !.onWire = (q.socket = "open"), !.sentAt = t, !.pc = "done",
            !.log = Append(@, "send")]

\* setTimeout(callback, ms): ms below 1 is run as 1
TimerDelay(ms) == IF ms < 1 THEN 1 ELSE ms

SetTimer(q, kind, ms, t) ==
  [q EXCEPT !.timer = [set |-> TRUE, kind |-> kind, due |-> t + TimerDelay(ms), armedAt |-> t, wait |-> ms],
            !.pc = kind, !.log = Append(@, kind)]

\* variant: the reset case has no break and runs into the default case
ConnectionFailureSwitch_noBreak(q, config, t) ==
  CASE config.type = "reset" ->
         Send([q EXCEPT !.socket = "destroyed", !.log = Append(@, "reset")], 500, InvalidFailureBody, t)
    [] config.type = "silent" ->
         [q EXCEPT !.pc = "hang", !.log = Append(@, "silent")]
    [] OTHER -> Send(q, 500, InvalidFailureBody, t)

\* variant: an unknown type is left unanswered
ConnectionFailureSwitch_unknownHangs(q, config, t) ==
  CASE config.type = "reset" ->
         [q EXCEPT !.socket = "destroyed", !.pc = "done", !.log = Append(@, "reset")]
    [] OTHER ->
         [q EXCEPT !.pc = "hang", !.log = Append(@, "silent")]

\* variant: the silent case answers like the default case
ConnectionFailureSwitch_silentAnswers(q, config, t) ==
  CASE config.type = "reset" ->
         [q EXCEPT !.socket = "destroyed", !.pc = "done", !.log = Append(@, "reset")]
    [] OTHER -> Send(q, 500, InvalidFailureBody, t)

\* the switch of handleConnectionFailure
ConnectionFailureSwitch(q, config, t) ==
  CASE config.type = "reset" ->
         [q EXCEPT !.socket = "destroyed", !.pc = "done", !.log = Append(@, "reset")]
    [] config.type = "silent" ->
         [q EXCEPT !.pc = "hang", !.log = Append(@, "silent")]
    [] OTHER -> Send(q, 500, InvalidFailureBody, t)

\* processResponseBody up to its first suspension, and delivery when there is none
StartBody(q, t) ==
  LET response == q.matchResult.matchedResponse IN
  IF response.body.dataFile # <<>>
  THEN [q EXCEPT !.pc = "reading", !.log = Append(@, "read")]
  ELSE IF processResponseBodyThrows(response.body, q.matchResult.templateContext, Undef, q.sys)
  THEN Send([q EXCEPT !.log = Append(@, "assemble")], 500, ProcessorErrorBody, t)
  ELSE Send([q EXCEPT !.log = Append(@, "assemble")], response.statusCode,
            processResponseBodyValue(response.body, q.matchResult.templateContext, Undef, q.sys), t)

\* variant: a data file that cannot be read counts as an empty object
FinishBody_missingAsEmpty(q, dir, t) ==
  LET response == q.matchResult.matchedResponse
      fileData == IF response.body.dataFile \in DOMAIN dir THEN dir[response.body.dataFile]
                  ELSE EmptyObj
  IN IF processResponseBodyThrows(response.body, q.matchResult.templateContext, fileData, q.sys)
     THEN Send([q EXCEPT !.log = Append(@, "assemble")], 500, ProcessorErrorBody, t)
     ELSE Send([q EXCEPT !.log = Append(@, "assemble")], response.statusCode,
               processResponseBodyValue(response.body, q.matchResult.templateContext,
                                        fileData, q.sys), t)

\* loadDataFile returns or throws, the rest of processResponseBody, delivery or the catch block
FinishBody(q, dir, t) ==
  LET response == q.matchResult.matchedResponse IN
  IF response.body.dataFile \notin DOMAIN dir THEN Send(q, 500, ProcessorErrorBody, t)
  ELSE IF processResponseBodyThrows(response.body, q.matchResult.templateContext,
                                    dir[response.body.dataFile], q.sys)
  THEN Send([q EXCEPT !.log = Append(@, "assemble")], 500, ProcessorErrorBody, t)
  ELSE Send([q EXCEPT !.log = Append(@, "assemble")], response.statusCode,
            processResponseBodyValue(response.body, q.matchResult.templateContext,
                                     dir[response.body.dataFile], q.sys), t)

\* variant: the computed delay is not waited for
LatencyStage_noWait(q, delay, t) == StartBody(q, t)

\* the latency stage of ResponseProcessor.middleware with the delay applyLatency computed
LatencyStage(q, delay, t) ==
  IF delay > 0 THEN SetTimer(q, "latency", delay, t) ELSE StartBody(q, t)

\* variant: the timeout is looked at before the connection failure
Process_timeoutFirst(q, delay, t) ==
  LET response == q.matchResult.matchedResponse IN
  IF response.timeout = Bool(TRUE)
  THEN SetTimer(q, "timeout", DefaultTimeout, t)
  ELSE IF response.timeout.k = "num"
  THEN SetTimer(q, "timeout", response.timeout.n, t)
  ELSE IF response.connectionFailure.present
  THEN IF response.connectionFailure.delay > 0
       THEN SetTimer(q, "failure", response.connectionFailure.delay, t)
       ELSE ConnectionFailureSwitch(q, response.connectionFailure, t)
  ELSE LatencyStage(q, delay, t)

\* variant: no return after applyTimeout, the handler goes on to the body
Process_noReturn(q, delay, t) ==
  LET response == q.matchResult.matchedResponse IN
  IF response.connectionFailure.present
  THEN IF response.connectionFailure.delay > 0
       THEN SetTimer(q, "failure", response.connectionFailure.delay, t)
       ELSE ConnectionFailureSwitch(q, response.connectionFailure, t)
  ELSE IF response.timeout = Bool(TRUE)
  THEN StartBody(SetTimer(q, "timeout", DefaultTimeout, t), t)
  ELSE IF response.timeout.k = "num"
  THEN StartBody(SetTimer(q, "timeout", response.timeout.n, t), t)
  ELSE LatencyStage(q, delay, t)

\* ResponseProcessor.middleware up to its first suspension; delay is the computed latency
Process(q, delay, t) ==
  LET response == q.matchResult.matchedResponse IN
  IF response.connectionFailure.present
  THEN IF response.connectionFailure.delay > 0
       THEN SetTimer(q, "failure", response.connectionFailure.delay, t)
       ELSE ConnectionFailureSwitch(q, response.connectionFailure, t)
  ELSE IF response.timeout = Bool(TRUE)
  THEN SetTimer(q, "timeout", DefaultTimeout, t)
  ELSE IF response.timeout.k = "num"
  THEN SetTimer(q, "timeout", response.timeout.n, t)
  ELSE LatencyStage(q, delay, t)

\* variant: next() is called whether or not a route matched
Dispatch_alwaysNext(q, allConfigs, delay, t) ==
  CHOOSE handled \in
    {Process([q EXCEPT !.matchResult = matchResult, !.log = Append(@, "match")], delay, t) :
       matchResult \in {findMatchingRoute(allConfigs, q)}} : TRUE

\* RequestMatcher.middleware followed, on a match, by ResponseProcessor.middleware
\* (findMatchingRoute is called once)
Dispatch(q, allConfigs, delay, t) ==
  CHOOSE handled \in
    {IF matchResult.found
     THEN Process([q EXCEPT !.matchResult = matchResult, !.log = Append(@, "match")], delay, t)
     ELSE Send(q, 404, NotFoundBody(q), t) :
       matchResult \in {findMatchingRoute(allConfigs, q)}} : TRUE

\* the callback of the pending timer
TimerCallback(q, t) ==
  LET q1 == [q EXCEPT !.timer.set = FALSE, !.log = Append(@, "fire")] IN
  CASE q.timer.kind = "failure" ->
         ConnectionFailureSwitch(q1, q.matchResult.matchedResponse.connectionFailure, t)
    [] q.timer.kind = "latency" -> StartBody(q1, t)
    [] OTHER ->
         IF ~q.res.headersSent THEN Send(q1, 408, TimeoutBody(q, q.timer.wait), t) ELSE q1

(***************************************************************************)
(* Actions.                                                                *)
(***************************************************************************)
Init ==
  /\ routeConfigs \in Stores
  /\ globalConfig \in GlobalConfigs
  /\ files = (F_users :> UsersBlob)
  /\ now = 0
  /\ req = [r \in Reqs |-> NoRequest]
  /\ call = NoCall

\* a request reaches the server
Arrive(r) ==
  /\ req[r].pc = "none"
  /\ \E method \in Methods, path \in Paths, query \in Queries, sys \in SysValues :
       req' = [req EXCEPT ![r].pc = "new", ![r].method = method, ![r].path = path,
                          ![r].query = query, ![r].params = ExpressParams(path),
                          ![r].sys = sys]
  /\ UNCHANGED <<routeConfigs, globalConfig, files, now, call>>

\* variant: the handler reads the query of the request that arrived last
\* instead of its own
Handle_sharedQuery(r) ==
  /\ req[r].pc = "new"
  /\ \E other \in DOMAIN req :
       /\ req[other].pc # "none"
       /\ (other = r) = (\A x \in DOMAIN req \ {r} : req[x].pc = "none")
       /\ \E delay \in LatencyDelays(findMatchingRoute(routeConfigs, [req[r] EXCEPT !.query = req[other].query]).matchedResponse, globalConfig) :
            req' = [req EXCEPT ![r] = Dispatch([req[r] EXCEPT !.query = req[other].query], routeConfigs, delay, now)]
  /\ UNCHANGED <<routeConfigs, globalConfig, files, now, call>>

\* the middleware chain runs until the response is sent or the handler suspends
Handle(r) ==
  /\ req[r].pc = "new"
  /\ \E matchResult \in {findMatchingRoute(routeConfigs, req[r])} :
       \E delay \in LatencyDelays(matchResult.matchedResponse, globalConfig) :
         req' = [req EXCEPT ![r] = Dispatch(req[r], routeConfigs, delay, now)]
  /\ UNCHANGED <<routeConfigs, globalConfig, files, now, call>>

\* the timer of the request is due and its callback runs
TimerFire(r) ==
  /\ req[r].timer.set
  /\ req[r].timer.due <= now
  /\ req' = [req EXCEPT ![r] = TimerCallback(req[r], now)]
  /\ UNCHANGED <<routeConfigs, globalConfig, files, now, call>>

\* fs.readFile of the data file completes
ReadDone(r) ==
  /\ req[r].pc = "reading"
  /\ req' = [req EXCEPT ![r] = FinishBody(req[r], files, now)]
  /\ UNCHANGED <<routeConfigs, globalConfig, files, now, call>>

\* the client closes the connection of an unanswered request
Disconnect(r) ==
  /\ req[r].pc \in {"failure", "timeout", "latency", "reading", "hang"}
  /\ req[r].socket = "open"
  /\ req' = [req EXCEPT ![r].socket = "closed", ![r].log = Append(@, "disconnect")]
  /\ UNCHANGED <<routeConfigs, globalConfig, files, now, call>>

\* time passes until the next timer is due
Tick ==
  /\ \E r \in DOMAIN req : req[r].timer.set /\ req[r].timer.due > now
  /\ now' = CHOOSE d \in {req[r].timer.due : r \in {x \in DOMAIN req : req[x].timer.set /\ req[x].timer.due > now}} :
              \A r \in DOMAIN req : (req[r].timer.set /\ req[r].timer.due > now) => d <= req[r].timer.due
  /\ UNCHANGED <<routeConfigs, globalConfig, files, req, call>>

Next ==
  \/ \E r \in Reqs : Arrive(r)
  \/ \E r \in Reqs : Handle(r)
  \/ \E r \in Reqs : TimerFire(r)
  \/ \E r \in Reqs : ReadDone(r)
  \/ \E r \in Reqs : Disconnect(r)
  \/ Tick

Spec == Init /\ [][Next]_vars

\* time passes, timers fire when due, file reads complete
FairSpec ==
  /\ Spec
  /\ \A r \in Reqs : WF_vars(TimerFire(r)) /\ WF_vars(ReadDone(r))
  /\ WF_vars(Tick)

\* as FairSpec, and a request that has arrived is handled
HandledFairSpec ==
  /\ FairSpec
  /\ \A r \in Reqs : WF_vars(Handle(r))

(***************************************************************************)
(* Two requests in the pipeline at once, on the scenario store.            *)
(***************************************************************************)
Pair == {"r1", "r2"}

PairPaths == {P_u, P_u1}
PairQueries ==
  {EmptyObj, Q(<<"m", "i", "s", "s", "i", "n", "g">>), Q(<<"f", "i", "l", "e">>), Q(<<"d", "e", "l", "a", "y">>),
   Q(<<"t", "n", "u", "m">>), Q(<<"s", "i", "l", "e", "n", "t", "d">>)}

PairInit ==
  /\ routeConfigs = StoreScenarios
  /\ globalConfig \in {g \in GlobalConfigs : ~g.defaults.latency.enabled}
  /\ files = (F_users :> UsersBlob)
  /\ now = 0
  /\ req = [r \in Pair |-> NoRequest]
  /\ call = NoCall

\* one of the two requests reaches the server
ArrivePair(r) ==
  /\ req[r].pc = "none"
  /\ \E path \in PairPaths, query \in PairQueries :
       req' = [req EXCEPT ![r].pc = "new", ![r].method = "GET", ![r].path = path,
                          ![r].query = query, ![r].params = ExpressParams(path),
                          ![r].sys = FixedSys]
  /\ UNCHANGED <<routeConfigs, globalConfig, files, now, call>>

PairNext ==
  \/ \E r \in Pair : ArrivePair(r)
  \/ \E r \in Pair : Handle(r)
  \/ \E r \in Pair : TimerFire(r)
  \/ \E r \in Pair : ReadDone(r)
  \/ \E r \in Pair : Disconnect(r)
  \/ Tick

PairSpec == PairInit /\ [][PairNext]_vars

\* time passes, timers fire when due, file reads complete
PairFairSpec ==
  /\ PairSpec
  /\ \A r \in Pair : WF_vars(TimerFire(r)) /\ WF_vars(ReadDone(r))
  /\ WF_vars(Tick)

(***************************************************************************)
(* ConditionEvaluator.evaluate as a function: the condition nodes a and b  *)
(* and the request context are drawn at the start, the actions evaluate    *)
(* the nodes built from them.                                              *)
(***************************************************************************)
K_x == <<"x">>
K_body_x == <<"b", "o", "d", "y", ".", "x">>

\* the values a field of the request body can have; the field can also be absent
FieldValues ==
  {Null, Str(<<>>), Str(<<"x">>), Str(<<"a", "x">>), Str(<<"a", "b">>), Num(0), Num(5),
   Bool(TRUE), Obj(K_x :> Num(5)), Arr(<<Num(5)>>)}

EvalContexts ==
  {Obj((PARAMS :> EmptyObj) @@ (QUERY :> EmptyObj) @@ (BODY :> b) @@ (HEADERS :> EmptyObj)) :
     b \in {EmptyObj} \cup {Obj(K_x :> v) : v \in FieldValues}}

\* operator objects naming one operator
SingleOperators ==
  {[NoOps EXCEPT !.hasExists = TRUE, !.exists = TRUE],
   [NoOps EXCEPT !.hasExists = TRUE, !.exists = FALSE],
   [NoOps EXCEPT !.hasEquals = TRUE, !.equals = Str(<<"x">>)],
   [NoOps EXCEPT !.hasNot = TRUE, !.not = Str(<<"x">>)],
   [NoOps EXCEPT !.hasContains = TRUE, !.contains = <<"x">>],
   [NoOps EXCEPT !.hasStartsWith = TRUE, !.startsWith = <<"a">>],
   [NoOps EXCEPT !.hasEndsWith = TRUE, !.endsWith = <<"x">>],
   [NoOps EXCEPT !.hasGreaterThan = TRUE, !.greaterThan = 3],
   [NoOps EXCEPT !.hasLessThan = TRUE, !.lessThan = 3],
   [NoOps EXCEPT !.hasIn = TRUE, !.in = <<Str(<<"x">>), Num(5)>>]}

\* operator objects naming two operators
DoubleOperators ==
  {[NoOps EXCEPT !.hasExists = TRUE, !.exists = TRUE, !.hasContains = TRUE, !.contains = <<"x">>],
   [NoOps EXCEPT !.hasContains = TRUE, !.contains = <<"x">>, !.hasStartsWith = TRUE, !.startsWith = <<"a">>],
   [NoOps EXCEPT !.hasContains = TRUE, !.contains = <<"x">>, !.hasIn = TRUE, !.in = <<Str(<<"x">>), Num(5)>>],
   [NoOps EXCEPT !.hasGreaterThan = TRUE, !.greaterThan = 3, !.hasLessThan = TRUE, !.lessThan = 9],
   [NoOps EXCEPT !.hasEquals = TRUE, !.equals = Str(<<"a", "x">>), !.hasEndsWith = TRUE, !.endsWith = <<"x">>]}

Expectations ==
  {Lit(Str(<<"x">>)), Lit(Num(5)), Lit(Bool(TRUE))}
    \cup {Ops(o) : o \in SingleOperators \cup DoubleOperators}

Entry(exp) == FieldMap(<<[key |-> K_body_x, exp |-> exp]>>)

LeafNodes == {Entry(e) : e \in Expectations} \cup {FieldMap(<<>>)}

\* nodes with logical operators inside, for the nesting
InnerNodes ==
  {AndNode(<<>>), OrNode(<<>>),
   AndNode(<<Entry(Lit(Str(<<"x">>))), FieldMap(<<>>)>>),
   OrNode(<<Entry(Lit(Num(5))), Entry(Lit(Str(<<"x">>)))>>),
   NotNode(Entry(Lit(Str(<<"x">>)))),
   NotNode(OrNode(<<Entry(Lit(Num(5))), NotNode(Entry(Lit(Str(<<"x">>))))>>)),
   [AndNode(<<Entry(Lit(Num(5)))>>) EXCEPT !.fields = <<[key |-> K_body_x, exp |-> Lit(Str(<<"x">>))]>>]}

NodesA == LeafNodes \cup InnerNodes
NodesB == InnerNodes \cup {Entry(Lit(Str(<<"x">>))), FieldMap(<<>>)}

\* the request pipeline at rest
Idle ==
  /\ routeConfigs = <<>>
  /\ globalConfig \in {g \in GlobalConfigs : ~g.defaults.latency.enabled}
  /\ files = <<>>
  /\ now = 0
  /\ req = [r \in Reqs |-> NoRequest]

Pipeline == <<routeConfigs, globalConfig, files, now, req>>

EvalInit ==
  /\ Idle
  /\ call \in {[fn |-> "none", arg |-> [a |-> a, b |-> b, context |-> c, keys |-> {}], result |-> Undef] :
                 a \in NodesA, b \in NodesB, c \in EvalContexts}

\* evaluate({$and: [a, b]}, context)
EvaluateAnd ==
  /\ call.fn = "none"
  /\ call' = [call EXCEPT !.fn = "and",
                          !.result = Bool(evaluate(AndNode(<<call.arg.a, call.arg.b>>), call.arg.context))]
  /\ UNCHANGED Pipeline

\* evaluate({$or: [a, b]}, context)
EvaluateOr ==
  /\ call.fn = "none"
  /\ call' = [call EXCEPT !.fn = "or",
                          !.result = Bool(evaluate(OrNode(<<call.arg.a, call.arg.b>>), call.arg.context))]
  /\ UNCHANGED Pipeline

\* evaluate({$not: a}, context)
EvaluateNot ==
  /\ call.fn = "none"
  /\ call' = [call EXCEPT !.fn = "not",
                          !.result = Bool(evaluate(NotNode(call.arg.a), call.arg.context))]
  /\ UNCHANGED Pipeline

\* evaluate(a, context)
EvaluateNode ==
  /\ call.fn = "none"
  /\ call' = [call EXCEPT !.fn = "node",
                          !.result = Bool(evaluate(call.arg.a, call.arg.context))]
  /\ UNCHANGED Pipeline

\* a node carrying the logical keys named in keys, $and: [a], $or: [b],
\* $not: a, next to the field entries of b
MixedNode(keys, a, b) ==
  [fields |-> b.fields,
   hasAnd |-> "$and" \in keys, and |-> IF "$and" \in keys THEN <<a>> ELSE <<>>,
   hasOr |-> "$or" \in keys, or |-> IF "$or" \in keys THEN <<b>> ELSE <<>>,
   hasNot |-> "$not" \in keys, not |-> IF "$not" \in keys THEN <<a>> ELSE <<>>]

\* evaluate of a node with one or more logical keys and field entries
EvaluateMixed ==
  /\ call.fn = "none"
  /\ \E keys \in SUBSET {"$and", "$or", "$not"} \ {{}} :
       call' = [call EXCEPT !.fn = "mixed", !.arg.keys = keys,
                            !.result = Bool(evaluate(MixedNode(keys, call.arg.a, call.arg.b),
                                                     call.arg.context))]
  /\ UNCHANGED Pipeline

EvalNext == EvaluateAnd \/ EvaluateOr \/ EvaluateNot \/ EvaluateNode \/ EvaluateMixed

EvalSpec == EvalInit /\ [][EvalNext]_vars

(***************************************************************************)
(* TemplateEngine.processTemplate as a function: the template, the request *)
(* context and the values of the generators are drawn at the start.        *)
(***************************************************************************)
TemplateStrings ==
  {<<"{", "{", "b", "o", "d", "y", ".", "x", "}", "}">>,
   <<"{", "{", " ", "b", "o", "d", "y", ".", "x", " ", "}", "}">>,
   <<"{", "{", "r", "a", "n", "d", "o", "m", "N", "u", "m", "b", "e", "r", "}", "}">>,
   <<"{", "{", "g", "e", "n", "e", "r", "a", "t", "e", "I", "d", "}", "}">>,
   <<"{", "{", "b", "o", "d", "y", ".", "y", "}", "}">>,
   <<"{", "{", "q", "u", "e", "r", "y", "}", "}">>,
   <<"{", "{", "n", "o", "p", "e", "}", "}">>,
   <<"{", "{", "t", "o", "S", "t", "r", "i", "n", "g", "}", "}">>,
   <<"{", "{", "c", "o", "n", "s", "t", "r", "u", "c", "t", "o", "r", "}", "}">>,
   <<"{", "{", "_", "_", "p", "r", "o", "t", "o", "_", "_", "}", "}">>,
   <<"a", "{", "{", "b", "o", "d", "y", ".", "x", "}", "}">>,
   <<"{", "{", "b", "o", "d", "y", ".", "x", "}", "}", "{", "{", "b", "o", "d", "y", ".", "x", "}", "}">>,
   <<"{", "{", "b", "o", "d", "y", ".", "x", "}", "}", "-", "{", "{", "r", "a", "n", "d", "o", "m", "N", "u", "m", "b", "e", "r", "}", "}">>,
   <<"a", "{", "{", "n", "o", "p", "e", "}", "}", "b">>,
   <<"a", "{", "{", "t", "o", "S", "t", "r", "i", "n", "g", "}", "}">>,
   <<"a", "{", "{", "_", "_", "p", "r", "o", "t", "o", "_", "_", "}", "}">>,
   <<"{", "{", "b", "o", "d", "y", ".", "y", "}", "}", "{", "{", "b", "o", "d", "y", ".", "x", "}", "}">>,
   <<"a", "b">>,
   <<>>,
   <<"{", "x", "}">>,
   <<"{", "{", "}", "}">>,
   <<"{", "{", "a", "}">>}

Templates ==
  {Str(s) : s \in TemplateStrings}
    \cup {Num(7), Bool(FALSE), Null, EmptyObj, Arr(<<>>),
          Arr(<<Str(<<"a", "b">>), Num(1), Null>>),
          Obj(K_x :> Arr(<<Str(<<"{", "x", "}">>), Obj(K_x :> Bool(TRUE))>>)),
          Obj((K_x :> Str(<<"{", "{", "b", "o", "d", "y", ".", "x", "}", "}">>)) @@ (K_data :> Str(<<"a", "{", "{", "b", "o", "d", "y", ".", "x", "}", "}">>))),
          Arr(<<Str(<<"{", "{", "b", "o", "d", "y", ".", "x", "}", "}">>), Str(<<"a", "{", "{", "n", "o", "p", "e", "}", "}">>)>>),
          Obj(K_x :> Arr(<<Str(<<"{", "{", "_", "_", "p", "r", "o", "t", "o", "_", "_", "}", "}">>)>>))}

TemplateInit ==
  /\ Idle
  /\ call \in {[fn |-> "none", arg |-> [template |-> v, context |-> c, sys |-> g], result |-> Undef] :
                 v \in Templates, c \in EvalContexts, g \in SysValues}

\* TemplateEngine.processTemplate(template, context)
ProcessTemplate ==
  /\ call.fn = "none"
  /\ call' = [call EXCEPT !.fn = "template",
                          !.result = processTemplate(call.arg.template, call.arg.context, call.arg.sys)]
  /\ UNCHANGED Pipeline

\* TemplateEngine.hasTemplateVariables(template)
HasTemplateVariables ==
  /\ call.fn = "none"
  /\ call' = [call EXCEPT !.fn = "has", !.result = Bool(hasTemplateVariables(call.arg.template))]
  /\ UNCHANGED Pipeline

TemplateNext == ProcessTemplate \/ HasTemplateVariables

TemplateSpec == TemplateInit /\ [][TemplateNext]_vars

(***************************************************************************)
(* ResponseProcessor.processResponseBody as a function of the body         *)
(* specification, the request context and the content of the data file.    *)
(***************************************************************************)
K_s == <<"s">>
K_i == <<"i">>
K_n == <<"n">>
K_d == <<"d">>

User(i, s) == Obj((K_i :> Num(i)) @@ (K_s :> Str(s)))

\* what the data file can hold
Blobs ==
  {Arr(<<User(1, <<"a">>), User(2, <<"b">>), User(3, <<"a">>)>>),
   Arr(<<User(1, <<"b">>), Obj(K_i :> Num(3)), User(3, <<"a">>), Num(4)>>),
   Arr(<<>>),
   User(3, <<"a">>)}

BodyDatas ==
  {Undef, Null, Num(0), Bool(FALSE), Str(<<>>), Str(<<"a", "b">>),
   Arr(<<Num(1), Num(2), Num(3)>>), Obj(K_x :> Str(<<"v">>))}

BodyFilters ==
  {Undef, EmptyObj, Obj(K_s :> Str(<<"a">>)), Obj((K_s :> Str(<<"a">>)) @@ (K_i :> Num(3)))}

BodyLimits ==
  {Undef, Num(0), Num(2), Num(9), Num(0 - 1), Str(<<"2">>), Str(<<"{", "{", "q", "u", "e", "r", "y", ".", "n", "}", "}">>)}

BodyDynamicFields == {Undef, Obj(K_d :> Str(<<"{", "{", "q", "u", "e", "r", "y", ".", "n", "}", "}">>))}

PlainBodies ==
  {ResponseBody(data, dataFile, filter, limit, dynamicFields) :
     data \in BodyDatas, dataFile \in {<<>>, F_users}, filter \in BodyFilters,
     limit \in BodyLimits, dynamicFields \in BodyDynamicFields}

\* a body can also say message, next to its other members or as its only one
Bodies ==
  PlainBodies \cup
  {BodyWith(b, K_message :> Str(<<"h", "i">>)) :
     b \in {p \in PlainBodies : p.data.k = "undef" \/ p.limit.k = "undef"}}

\* the query parameter n is absent, a number, zero, or no number
BodyContexts ==
  {Obj((PARAMS :> EmptyObj) @@ (QUERY :> q) @@ (BODY :> EmptyObj) @@ (HEADERS :> EmptyObj)) :
     q \in {EmptyObj, Obj(K_n :> Str(<<"2">>)), Obj(K_n :> Str(<<"0">>)), Obj(K_n :> Str(<<"x">>))}}

BodyInit ==
  /\ Idle
  /\ call \in {[fn |-> "none", arg |-> [body |-> b, context |-> c, fileData |-> f], result |-> Undef] :
                 b \in Bodies, c \in BodyContexts, f \in Blobs}

\* processResponseBody(body, templateContext), loadDataFile returning fileData
AssembleBody ==
  /\ call.fn = "none"
  /\ call' = [call EXCEPT !.fn = "body",
                          !.result = processResponseBody(call.arg.body, call.arg.context,
                                                         call.arg.fileData, FixedSys)]
  /\ UNCHANGED Pipeline

\* filterData(fileData, body.filter) for a body with a dataFile and a filter
FilterData ==
  /\ call.fn = "none"
  /\ call.arg.body.dataFile # <<>>
  /\ Truthy(call.arg.body.filter)
  /\ call' = [call EXCEPT !.fn = "filter",
                          !.result = filterData(call.arg.fileData, call.arg.body.filter)]
  /\ UNCHANGED Pipeline

BodyNext == AssembleBody \/ FilterData

BodySpec == BodyInit /\ [][BodyNext]_vars

(***************************************************************************)
(* applyLatency on its own: a response's latency member, a global           *)
(* configuration, and the time the call suspends for.                       *)
(***************************************************************************)
MaxRange == 2

\* latency members: absent, switched on or off, with delay, min, max in every combination
LatencyConfigs ==
  {NoLatency} \cup
  {[present |-> TRUE, enabled |-> e, hasDelay |-> hd, delay |-> IF hd THEN d ELSE 0,
    hasMin |-> hlo, min |-> IF hlo THEN lo ELSE 0, hasMax |-> hhi, max |-> IF hhi THEN hi ELSE 0] :
     e \in BOOLEAN, hd \in BOOLEAN, d \in {0, 3}, hlo \in BOOLEAN, lo \in 0..MaxRange,
     hhi \in BOOLEAN, hi \in 1..MaxRange}

\* global.json as written, as loadGlobalConfig defaults it, and small ranges
LatencyGlobals ==
  GlobalConfigs \cup
  {[defaults |-> [latency |-> [enabled |-> e, min |-> lo, max |-> hi]]] :
     e \in BOOLEAN, lo \in 0..MaxRange, hi \in 1..MaxRange}

LatencyInit ==
  /\ Idle
  /\ call \in {[fn |-> "none", arg |-> [response |-> RouteResponse(200, BodyData(Undef), l, Undef, NoConnectionFailure),
                                        global |-> g],
                result |-> Undef] : l \in LatencyConfigs, g \in LatencyGlobals}

\* applyLatency(response) returns after the wait
ApplyLatency ==
  /\ call.fn = "none"
  /\ \E delay \in LatencyDelays(call.arg.response, call.arg.global) :
       call' = [call EXCEPT !.fn = "applyLatency", !.result = Num(LatencyWait(delay))]
  /\ UNCHANGED Pipeline

LatencyNext == ApplyLatency

LatencySpec == LatencyInit /\ [][LatencyNext]_vars

(***************************************************************************)
(* ConfigLoader: the route store is a Map from "METHOD:path" to the route  *)
(* definition, filled from the JSON files of the routes directory.          *)
(***************************************************************************)
\* `${config.method.toUpperCase()}:${config.path}`
ConfigKey(config) == <<ToUpperCase(config.method), config.path>>

\* Map.prototype.set: a key already there keeps its place and gets the new value
MapSet(store, config) ==
  IF \E i \in 1..Len(store) : ConfigKey(store[i]) = ConfigKey(config)
  THEN [i \in 1..Len(store) |->
          IF ConfigKey(store[i]) = ConfigKey(config) THEN config ELSE store[i]]
  ELSE Append(store, config)

\* what readdirSync lists: a route definition in a .json file, a .json file
\* that does not parse, a .json file whose content has no method, a file of
\* another kind, an entry statSync fails on, a subdirectory
ConfigFile(config) == [kind |-> "config", config |-> config, items |-> <<>>]
BadJsonFile == [kind |-> "badjson", config |-> NoResponse, items |-> <<>>]
NoMethodFile == [kind |-> "nomethod", config |-> NoResponse, items |-> <<>>]
OtherFile == [kind |-> "other", config |-> NoResponse, items |-> <<>>]
Unreadable == [kind |-> "unreadable", config |-> NoResponse, items |-> <<>>]
SubDirectory(items) == [kind |-> "dir", config |-> NoResponse, items |-> items]

\* the loop of loadRouteConfigsFromDirectory over items[i..]; thrown when
\* statSync threw, in this directory or below
RECURSIVE LoadItems(_, _, _)
LoadItems(store, items, i) ==
  IF i > Len(items) THEN [store |-> store, thrown |-> FALSE]
  ELSE CASE items[i].kind = "unreadable" -> [store |-> store, thrown |-> TRUE]
         [] items[i].kind = "dir" ->
              IF LoadItems(store, items[i].items, 1).thrown
              THEN LoadItems(store, items[i].items, 1)
              ELSE LoadItems(LoadItems(store, items[i].items, 1).store, items, i + 1)
         [] items[i].kind = "config" -> LoadItems(MapSet(store, items[i].config), items, i + 1)
         [] OTHER -> LoadItems(store, items, i + 1)

loadRouteConfigsFromDirectory(store, dir) ==
  IF ~dir.exists THEN [store |-> store, thrown |-> FALSE]
  ELSE LoadItems(store, dir.items, 1)

\* the catch block keeps what was set before the exception
loadRouteConfigs(store, dir) == loadRouteConfigsFromDirectory(store, dir).store

\* variant: the store is not cleared before loading
reloadConfigurations_noClear(store, dir) == loadRouteConfigs(store, dir)

\* routeConfigs.clear(), loadRouteConfigs(); the store afterwards
reloadConfigurations(store, dir) == loadRouteConfigs(<<>>, dir)

(***************************************************************************)
(* Reloading on its own: a store from before, a routes directory.           *)
(***************************************************************************)
MaxItems == 3

RouteA == RouteConfig("GET", P_u, <<>>, Plain(200, <<"l", "i", "s", "t">>))
RouteA2 == RouteConfig("get", P_u, <<>>, Plain(299, <<"n", "e", "w">>))
RouteB == RouteConfig("POST", P_v, <<>>, Plain(201, <<"m", "a", "d", "e">>))

DirItems ==
  {ConfigFile(RouteA), ConfigFile(RouteA2), ConfigFile(RouteB), BadJsonFile, NoMethodFile,
   OtherFile, Unreadable,
   SubDirectory(<<ConfigFile(RouteB), ConfigFile(RouteA2)>>),
   SubDirectory(<<ConfigFile(RouteA2), Unreadable, ConfigFile(RouteB)>>)}

MissingDirectory == [exists |-> FALSE, items |-> <<>>]
Directory(items) == [exists |-> TRUE, items |-> items]

RouteDirs ==
  {MissingDirectory} \cup
  UNION {{Directory(items) : items \in [1..n -> DirItems]} : n \in 0..MaxItems}

OldStores == {<<>>, StoreScenarios, StoreOverlap}

Scopes == {"all", "configs", "data"}

ReloadInit ==
  /\ routeConfigs \in OldStores
  /\ globalConfig \in {g \in GlobalConfigs : ~g.defaults.latency.enabled}
  /\ files = <<>>
  /\ now = 0
  /\ req = [r \in Reqs |-> NoRequest]
  /\ call \in {[fn |-> "none", arg |-> [dir |-> d, scope |-> ""], result |-> Undef] : d \in RouteDirs}

\* ConfigLoader.reloadConfigurations() returns the size of the store
ReloadConfigurations ==
  /\ call.fn = "none"
  /\ routeConfigs' = reloadConfigurations(routeConfigs, call.arg.dir)
  /\ call' = [call EXCEPT !.fn = "reloadConfigurations",
                          !.result = Num(Len(reloadConfigurations(routeConfigs, call.arg.dir)))]
  /\ UNCHANGED <<globalConfig, files, now, req>>

\* POST /refresh with a scope: the reloads it asks for, and the counts it answers with
PostRefresh ==
  /\ call.fn = "none"
  /\ \E scope \in Scopes :
       /\ routeConfigs' = IF scope \in {"all", "configs"}
                          THEN reloadConfigurations(routeConfigs, call.arg.dir)
                          ELSE routeConfigs
       /\ call' = [call EXCEPT
                     !.fn = "refresh", !.arg.scope = scope,
                     !.result = Obj((<<"c", "o", "n", "f", "i", "g", "s">> :>
                                       Num(IF scope \in {"all", "configs"}
                                           THEN Len(reloadConfigurations(routeConfigs, call.arg.dir))
                                           ELSE 0))
                                    @@ (K_data :>
                                       Num(IF scope \in {"all", "data"}
                                           THEN Cardinality(DOMAIN files) ELSE 0)))]
  /\ UNCHANGED <<globalConfig, files, now, req>>

ReloadNext == ReloadConfigurations \/ PostRefresh

ReloadSpec == ReloadInit /\ [][ReloadNext]_vars

(***************************************************************************)
(* One request in flight while files are uploaded and the server is        *)
(* refreshed.                                                               *)
(***************************************************************************)
LiveQueries == {EmptyObj, Q(<<"f", "i", "l", "e">>), Q(<<"d", "e", "l", "a", "y">>), Q(<<"t", "n", "u", "m">>)}

\* the routes directory at the time of the refresh: gone, or one definition
\* that answers GET /u differently
LiveDirs == {MissingDirectory, Directory(<<ConfigFile(RouteA2)>>)}

UploadBlobs == {UsersBlob, Obj(<<"n">> :> Str(<<"n", "e", "w">>))}

LiveInit ==
  /\ routeConfigs = StoreScenarios
  /\ globalConfig \in {g \in GlobalConfigs : ~g.defaults.latency.enabled}
  /\ files = (F_users :> UsersBlob)
  /\ now = 0
  /\ req = [r \in Reqs |-> NoRequest]
  /\ call \in {[fn |-> "none", arg |-> [dir |-> d, scope |-> ""], result |-> Undef] : d \in LiveDirs}

ArriveLive(r) ==
  /\ req[r].pc = "none"
  /\ \E query \in LiveQueries :
       req' = [req EXCEPT ![r].pc = "new", ![r].method = "GET", ![r].path = P_u,
                          ![r].query = query, ![r].params = ExpressParams(P_u),
                          ![r].sys = FixedSys]
  /\ UNCHANGED <<routeConfigs, globalConfig, files, now, call>>

\* POST /files/upload writes a JSON file into the data directory
UploadDataFile ==
  /\ \E blob \in UploadBlobs :
       /\ files' = (F_users :> blob) @@ files
       /\ files'[F_users] # files[F_users]
  /\ UNCHANGED <<routeConfigs, globalConfig, now, req, call>>

LiveNext ==
  \/ \E r \in Reqs : ArriveLive(r)
  \/ \E r \in Reqs : Handle(r)
  \/ \E r \in Reqs : TimerFire(r)
  \/ \E r \in Reqs : ReadDone(r)
  \/ Tick
  \/ UploadDataFile
  \/ PostRefresh

LiveSpec == LiveInit /\ [][LiveNext]_vars

(***************************************************************************)
(* Properties.                                                             *)
(***************************************************************************)
Handled(q) == q.pc \notin {"none", "new"}
Matched(q) == q.matchResult.found
Chosen(q) == q.matchResult.matchedResponse

\* the rules of config whose when is true in context
TrueRules(config, context) ==
  {j \in 1..Len(config.conditions) : evaluate(config.conditions[j].when, context)}

Least(S) == CHOOSE j \in S : \A k \in S : j <= k

ExpectedResponse(config, context) ==
  IF TrueRules(config, context) = {} THEN config.defaultResponse
  ELSE config.conditions[Least(TrueRules(config, context))].response

\* C1: for every route definition and request context the chosen response is
\* that of the lowest-index rule whose when is true, the defaultResponse when
\* no rule is true, and the rules after the first true one do not matter.
C1_FirstTrueRuleWins ==
  \A r \in Reqs : req[r].pc # "none" =>
    LET context == createContextFromRequest(req[r]) IN
    /\ \A i \in 1..Len(routeConfigs) :
         LET config == routeConfigs[i]
             true == TrueRules(config, context)
         IN /\ findMatchingResponse(config, context) = ExpectedResponse(config, context)
            /\ true # {} =>
                 findMatchingResponse([config EXCEPT !.conditions = SubSeq(@, 1, Least(true))], context)
                   = findMatchingResponse(config, context)
    /\ Matched(req[r]) =>
         Chosen(req[r]) = ExpectedResponse(routeConfigs[req[r].matchResult.config], context)

\* a request was answered from a route two of whose rules are true
C1_Witness ==
  \E r \in Reqs :
    /\ Matched(req[r]) /\ req[r].pc = "done"
    /\ LET config == routeConfigs[req[r].matchResult.config]
           true == TrueRules(config, req[r].matchResult.templateContext)
       IN /\ Cardinality(true) >= 2
          /\ Chosen(req[r]) = config.conditions[Least(true)].response
          /\ req[r].res.statusCode = config.conditions[Least(true)].response.statusCode

\* the definitions whose method and path pattern match the request
MatchingRoutes(q) ==
  {i \in 1..Len(routeConfigs) : matchesRoute(routeConfigs[i], q.method, q.path)}

IsParamSegment(seg) == Len(seg) >= 2 /\ Head(seg) = ":"

SegmentsMatch(pattern, path) ==
  LET cs == Split(pattern, "/")
      rs == Split(path, "/")
  IN /\ Len(cs) = Len(rs)
     /\ \A i \in 1..Len(cs) :
          IF IsParamSegment(cs[i]) THEN rs[i] # <<>> ELSE cs[i] = rs[i]

\* C3: the path matcher reports a match iff pattern and path have the same
\* number of segments, every non-parameter segment is string-equal and every
\* ':name' segment faces a non-empty segment.
C3_MatchIffSegmentsMatch ==
  \A r \in Reqs : req[r].pc # "none" =>
    \A i \in 1..Len(routeConfigs) :
      matchesPath(routeConfigs[i].path, req[r].path)
        <=> SegmentsMatch(routeConfigs[i].path, req[r].path)

\* C4: on a match, the request context has params[name] equal to the path
\* segment at the position of every ':name' segment of the pattern.
C4_ParamsBound ==
  \A r \in Reqs : Matched(req[r]) =>
    \A binding \in extractPathParams(routeConfigs[req[r].matchResult.config].path, req[r].path) :
      Get(Get(req[r].matchResult.templateContext, PARAMS), binding[1]) = Str(binding[2])

\* the stages a request has gone through
OnFailurePath(q) ==
  \/ Has(q.log, "failure") \/ Has(q.log, "reset") \/ Has(q.log, "silent")
  \/ q.res.body = InvalidFailureBody
OnTimeoutPath(q) == Has(q.log, "timeout")
OnNormalPath(q) == Has(q.log, "latency") \/ Has(q.log, "read") \/ Has(q.log, "assemble")

\* C5: exactly one delivery path runs, by the precedence connection failure,
\* timeout, latency wait and delivery: with connectionFailure there is never
\* a 408 and no normal delivery, with a timeout there is no normal delivery.
C5_OnePathByPrecedence ==
  \A r \in Reqs : Matched(req[r]) =>
    LET q == req[r]
        response == Chosen(q)
    IN /\ OnFailurePath(q) \/ OnTimeoutPath(q) \/ OnNormalPath(q)
       /\ ~(OnFailurePath(q) /\ OnTimeoutPath(q))
       /\ ~(OnFailurePath(q) /\ OnNormalPath(q))
       /\ ~(OnTimeoutPath(q) /\ OnNormalPath(q))
       /\ response.connectionFailure.present =>
            /\ ~OnTimeoutPath(q) /\ ~OnNormalPath(q)
            /\ q.res.statusCode # 408
            /\ q.res.statusCode # response.statusCode
       /\ (~response.connectionFailure.present /\ Truthy(response.timeout)) =>
            /\ OnTimeoutPath(q) /\ ~OnNormalPath(q)
            /\ q.res.statusCode \in {0, 408}
       /\ (~response.connectionFailure.present /\ response.timeout \in {Undef, Bool(FALSE)}) =>
            /\ ~OnTimeoutPath(q)
            /\ q.res.statusCode # 408
            /\ Has(q.log, "latency") => response.latency.present /\ response.latency.enabled

\* a spec with connectionFailure and a truthy timeout ended in the reset
C5_Witness ==
  \E r \in Reqs :
    /\ Matched(req[r])
    /\ Chosen(req[r]).connectionFailure.present
    /\ Truthy(Chosen(req[r]).timeout)
    /\ Has(req[r].log, "reset")

\* C6: without connectionFailure the timeout path is taken exactly when
\* timeout is truthy; an absent, false or zero timeout leads to the
\* latency and normal delivery path.
C6_TimeoutIffTruthy ==
  \A r \in Reqs : (Matched(req[r]) /\ ~Chosen(req[r]).connectionFailure.present) =>
    /\ OnTimeoutPath(req[r]) <=> Truthy(Chosen(req[r]).timeout)
    /\ ~Truthy(Chosen(req[r]).timeout) => OnNormalPath(req[r])

\* the wait the timeout path promises
TimeoutWait(response) ==
  IF response.timeout = Bool(TRUE) THEN 5000 ELSE response.timeout.n

C7_TimeoutSafety ==
  \A r \in Reqs : OnTimeoutPath(req[r]) =>
    LET q == req[r] IN
    /\ ~Has(q.log, "assemble") /\ ~Has(q.log, "read")
    /\ q.res.headersSent =>
         /\ q.res.statusCode = 408
         /\ q.res.body.k = "obj"
         /\ DOMAIN q.res.body.o = {K_error, K_message, K_path, K_query}
         /\ Includes(q.res.body.o[K_message].s, <<"t", "i", "m", "e", "d", " ", "o", "u", "t">>)
         /\ q.res.body.o[K_path] = Str(q.path)
         /\ q.res.body.o[K_query] = q.query
         /\ q.sentAt - q.timer.armedAt >= TimeoutWait(Chosen(q))

\* C7: on the timeout path no body is assembled and no data file read; while
\* the client stays connected the request ends with a 408 carrying error,
\* message ('timed out'), path and query, and not before the wait (5000 ms
\* for true, the number otherwise) has elapsed.
C7_TimeoutEndsIn408 ==
  /\ []C7_TimeoutSafety
  /\ \A r \in Reqs :
       OnTimeoutPath(req[r]) ~>
         \/ req[r].socket # "open"
         \/ req[r].res.statusCode = 408 /\ req[r].onWire

\* timeout: true was answered with a 408 on the open connection
C7_Witness ==
  \E r \in Reqs :
    /\ Chosen(req[r]).timeout = Bool(TRUE)
    /\ req[r].res.statusCode = 408 /\ req[r].onWire
    /\ req[r].sentAt >= 5000

C8_FailureSafety ==
  \A r \in Reqs :
    (Matched(req[r]) /\ Chosen(req[r]).connectionFailure.present
       /\ Chosen(req[r]).connectionFailure.type \in {"reset", "silent"}) =>
    LET q == req[r]
        failure == Chosen(q).connectionFailure
    IN /\ ~q.res.headersSent /\ ~q.onWire
       /\ ~Has(q.log, "assemble") /\ ~Has(q.log, "read")
       /\ Has(q.log, "reset") => failure.type = "reset" /\ q.socket = "destroyed"
       /\ Has(q.log, "silent") => failure.type = "silent" /\ q.pc = "hang" /\ q.socket # "destroyed"
       /\ (Has(q.log, "reset") \/ Has(q.log, "silent")) => now >= q.timer.armedAt + failure.delay

\* C8: with a connectionFailure of type reset or silent no response bytes
\* are ever written and no body is assembled; after the optional delay reset
\* destroys the transport and silent leaves the request unanswered.
C8_FailureNeverAnswers ==
  /\ []C8_FailureSafety
  /\ \A r \in Reqs :
       /\ (Matched(req[r]) /\ Chosen(req[r]).connectionFailure.present
             /\ Chosen(req[r]).connectionFailure.type = "reset") ~> (req[r].socket = "destroyed")
       /\ (Matched(req[r]) /\ Chosen(req[r]).connectionFailure.present
             /\ Chosen(req[r]).connectionFailure.type = "silent")
             ~> [](req[r].pc = "hang" /\ ~req[r].res.headersSent)

\* a silent failure with a delay left the request unanswered after the delay
C8_Witness ==
  \E r \in Reqs :
    /\ Chosen(req[r]).connectionFailure.present
    /\ Chosen(req[r]).connectionFailure.delay > 0
    /\ Has(req[r].log, "silent") /\ req[r].pc = "hang"
    /\ ~req[r].res.headersSent

\* C9: once the client has disconnected, the pending timer of its request is
\* cancelled: no timer of the request stays scheduled and no response write
\* is attempted.
C9_DisconnectCancels ==
  \A r \in Reqs : req[r].socket = "closed" =>
    /\ ~req[r].timer.set
    /\ ~Has(req[r].log, "send")

FixedDelay(response) ==
  IF response.latency.present /\ response.latency.enabled /\ response.latency.hasDelay
  THEN response.latency.delay ELSE 0

C11_LogicalOperators ==
  LET a == call.arg.a
      b == call.arg.b
      context == call.arg.context
  IN /\ call.fn = "and" => call.result = Bool(evaluate(a, context) /\ evaluate(b, context))
     /\ call.fn = "or" => call.result = Bool(evaluate(a, context) \/ evaluate(b, context))
     /\ call.fn = "not" => call.result = Bool(~evaluate(a, context))

\* {$or: [a, b]} was evaluated to true with a nested a and only one of a, b true
C11_Witness ==
  /\ call.fn = "or" /\ call.result = Bool(TRUE)
  /\ call.arg.a.hasNot /\ call.arg.a.not[1].hasOr
  /\ evaluate(call.arg.a, call.arg.context) # evaluate(call.arg.b, call.arg.context)

\* the operators an operator object names
NamedOperators(o) ==
  {name \in {"exists", "equals", "not", "contains", "startsWith", "endsWith",
              "greaterThan", "lessThan", "in"} :
     CASE name = "exists" -> o.hasExists
       [] name = "equals" -> o.hasEquals
       [] name = "not" -> o.hasNot
       [] name = "contains" -> o.hasContains
       [] name = "startsWith" -> o.hasStartsWith
       [] name = "endsWith" -> o.hasEndsWith
       [] name = "greaterThan" -> o.hasGreaterThan
       [] name = "lessThan" -> o.hasLessThan
       [] OTHER -> o.hasIn}

\* the operator name of o, taken alone, holds for the value actual
OperatorHolds(name, actual, o) ==
  CASE name = "exists" -> o.exists = (actual.k \notin {"undef", "null"} /\ actual # Str(<<>>))
    [] name = "equals" -> StrictEq(actual, o.equals)
    [] name = "not" -> ~StrictEq(actual, o.not)
    [] name = "contains" -> actual.k = "str" /\ Includes(actual.s, o.contains)
    [] name = "startsWith" -> actual.k = "str" /\ StartsWith(actual.s, o.startsWith)
    [] name = "endsWith" -> actual.k = "str" /\ EndsWith(actual.s, o.endsWith)
    [] name = "greaterThan" -> actual.k = "num" /\ actual.n > o.greaterThan
    [] name = "lessThan" -> actual.k = "num" /\ actual.n < o.lessThan
    [] OTHER -> \E i \in 1..Len(o.in) : StrictEq(o.in[i], actual)

\* node is a field map of one entry whose value is an operator object
IsOperatorEntry(node) ==
  /\ ~node.hasAnd /\ ~node.hasOr /\ ~node.hasNot
  /\ Len(node.fields) = 1 /\ node.fields[1].exp.kind = "ops"

\* C12: an entry whose operator object names two or more operators matches
\* iff every named operator holds for the resolved field value.
C12_EveryNamedOperatorHolds ==
  (call.fn = "node" /\ IsOperatorEntry(call.arg.a)
     /\ Cardinality(NamedOperators(call.arg.a.fields[1].exp.ops)) >= 2) =>
    LET o == call.arg.a.fields[1].exp.ops
        actual == getValueFromContext(call.arg.a.fields[1].key, call.arg.context)
    IN call.result = Bool(\A name \in NamedOperators(o) : OperatorHolds(name, actual, o))

\* the type precondition of the operator name fails for the value actual
PreconditionFails(name, actual) ==
  \/ name \in {"contains", "startsWith", "endsWith"} /\ actual.k # "str"
  \/ name \in {"greaterThan", "lessThan"} /\ actual.k # "num"

\* C13: an entry whose operator object names an operator whose type
\* precondition fails for the resolved value (absent or of any type)
\* evaluates to false.
C13_FailedPreconditionIsFalse ==
  (call.fn = "node" /\ IsOperatorEntry(call.arg.a)) =>
    LET o == call.arg.a.fields[1].exp.ops
        actual == getValueFromContext(call.arg.a.fields[1].key, call.arg.context)
    IN (\E name \in NamedOperators(o) : PreconditionFails(name, actual)) =>
         call.result = Bool(FALSE)

\* the start positions of the placeholders of s, found from left to right from i on
RECURSIVE PlaceholdersFrom(_, _)
PlaceholdersFrom(s, i) ==
  IF i > Len(s) THEN {}
  ELSE IF PlaceholderAt(s, i)
  THEN {i} \cup PlaceholdersFrom(s, i + 4 + RunNotBrace(s, i + 2))
  ELSE PlaceholdersFrom(s, i + 1)

PlaceholderText(s, i) == SubSeq(s, i, i + 3 + RunNotBrace(s, i + 2))
PlaceholderName(s, i) == Trim(SubSeq(s, i + 2, i + 1 + RunNotBrace(s, i + 2)))

\* s consists of exactly one placeholder
IsSolePlaceholder(s) == PlaceholderAt(s, 1) /\ PlaceholderText(s, 1) = s

\* name is a system generator or a dotted path with a value in the context
Resolves(name, context) ==
  name \in SystemVariableNames \/ getValueFromContext(name, context) # Undef

ResolvedValue(name, context, sys) ==
  IF name \in SystemVariableNames THEN sys[name] ELSE getValueFromContext(name, context)

\* s from position i on, each placeholder replaced by the string form of its value
RECURSIVE Expand(_, _, _, _)
Expand(s, i, context, sys) ==
  IF i > Len(s) THEN <<>>
  ELSE IF PlaceholderAt(s, i)
  THEN StringOf(ResolvedValue(PlaceholderName(s, i), context, sys))
       \o Expand(s, i + 4 + RunNotBrace(s, i + 2), context, sys)
  ELSE <<s[i]>> \o Expand(s, i + 1, context, sys)

\* C14: a string that is exactly one placeholder resolves to the resolved value
\* itself, type intact; a string with other text around a placeholder, or with
\* several placeholders, resolves to a string in which each resolved
\* placeholder is replaced by the string form of its value.
C14_SolePlaceholderKeepsType ==
  (call.fn = "template" /\ call.arg.template.k = "str") =>
    LET s == call.arg.template.s
        context == call.arg.context
    IN (/\ PlaceholdersFrom(s, 1) # {}
        /\ \A i \in PlaceholdersFrom(s, 1) : Resolves(PlaceholderName(s, i), context)) =>
         IF IsSolePlaceholder(s)
         THEN call.result = ResolvedValue(PlaceholderName(s, 1), context, call.arg.sys)
         ELSE call.result = Str(Expand(s, 1, context, call.arg.sys))

\* the sole placeholder {{body.x}} resolved to the list in body.x
C14_Witness ==
  /\ call.fn = "template"
  /\ call.arg.template = Str(<<"{", "{", "b", "o", "d", "y", ".", "x", "}", "}">>)
  /\ call.result.k = "arr"
  /\ call.result = Get(Get(call.arg.context, BODY), K_x)

\* C15: a placeholder whose name is neither a system generator nor a dotted
\* path that resolves in the context is left in the output as written, as the
\* whole string and inside other text, and raises no error.
C15_UnknownNameLeftInPlace ==
  (call.fn = "template" /\ call.arg.template.k = "str") =>
    LET s == call.arg.template.s IN
    \A i \in PlaceholdersFrom(s, 1) :
      ~Resolves(PlaceholderName(s, i), call.arg.context) =>
        /\ call.result # Thrown
        /\ call.result.k = "str"
        /\ Includes(call.result.s, PlaceholderText(s, i))
        /\ IsSolePlaceholder(s) => call.result = Str(s)

\* C16: a nested value without any placeholder resolves to itself.
C16_NoPlaceholderUnchanged ==
  (call.fn = "template" /\ ~hasTemplateVariables(call.arg.template)) =>
    call.result = call.arg.template

\* a map holding a non-empty list, without placeholders, came back unchanged
C16_Witness ==
  /\ call.fn = "template"
  /\ ~hasTemplateVariables(call.arg.template)
  /\ call.arg.template.k = "obj"
  /\ \E key \in DOMAIN call.arg.template.o :
       call.arg.template.o[key].k = "arr" /\ Len(call.arg.template.o[key].o) = 2
  /\ call.result = call.arg.template

\* the body specification has a data member, a dataFile member
HasData(body) == body.data.k # "undef"
HasDataFile(body) == body.dataFile # <<>>

\* the value inside the {data: ...} wrapper of result, result itself without wrapper
Payload(result) ==
  IF result.k = "obj" /\ DOMAIN result.o = {K_data} THEN result.o[K_data] ELSE result

\* the items of the list a that agree with every key of filter, in order
Agreeing(a, filter) ==
  SelectSeq(a, LAMBDA item : \A key \in DOMAIN filter.o :
                               item.k = "obj" /\ key \in DOMAIN item.o
                                 /\ item.o[key] = filter.o[key])

\* the result of a body before limit and dynamicFields
Selected(body, fileData) ==
  IF ~HasDataFile(body) THEN (IF HasData(body) THEN body.data ELSE EmptyObj)
  ELSE IF body.filter.k = "obj" /\ fileData.k = "arr"
  THEN Arr(Agreeing(fileData.o, body.filter))
  ELSE fileData

\* the limit of body is, or resolves to the text of, a positive integer; its value
LimitNumber(body, context) ==
  IF body.limit.k = "num" THEN body.limit.n
  ELSE IF body.limit.k = "str"
  THEN LET text == processTemplate(body.limit, context, FixedSys) IN
       IF text.k = "str" /\ text.s # <<>> /\ \A j \in 1..Len(text.s) : IsDigit(text.s[j])
       THEN DigitsValue(text.s, 1, Len(text.s)) ELSE 0
  ELSE 0

\* the first min(n, length) items of the list value v
FirstItems(v, n) == Arr([j \in 1..(IF n < Len(v.o) THEN n ELSE Len(v.o)) |-> v.o[j]])

\* the result of a body after the limit, for any source of the list
Limited(body, context, fileData) ==
  LET selected == Selected(body, fileData) IN
  IF selected.k = "arr" /\ LimitNumber(body, context) > 0
  THEN FirstItems(selected, LimitNumber(body, context))
  ELSE selected

\* C17 as stated: the limit truncates a list result to its first min(n, length)
\* items whether the list comes from inline data or from a dataFile, and
\* leaves everything else unchanged.
C17_LimitForEverySource ==
  (call.fn = "body" /\ call.arg.body.limit.k # "undef" /\ call.arg.body.dynamicFields.k = "undef") =>
    Payload(call.result) = Limited(call.arg.body, call.arg.context, call.arg.fileData)

\* C17 amended: the limit truncates the list loaded from a dataFile (after
\* the filter) to its first min(n, length) items in their order when it is,
\* or resolves to, a positive integer n, and leaves it unchanged otherwise; a
\* result that is no list, and a list given as inline data without dataFile,
\* are left unchanged.
C17_LimitForDataFileOnly ==
  (call.fn = "body" /\ call.arg.body.limit.k # "undef" /\ call.arg.body.dynamicFields.k = "undef") =>
    Payload(call.result) =
      IF HasDataFile(call.arg.body)
      THEN Limited(call.arg.body, call.arg.context, call.arg.fileData)
      ELSE Selected(call.arg.body, call.arg.fileData)

\* a templated limit resolved to 2 cut the three filtered-in items of the file to two
C17_Witness ==
  /\ call.fn = "body"
  /\ HasDataFile(call.arg.body) /\ call.arg.body.filter = EmptyObj
  /\ call.arg.body.limit = Str(<<"{", "{", "q", "u", "e", "r", "y", ".", "n", "}", "}">>)
  /\ call.arg.body.dynamicFields.k = "undef"
  /\ call.arg.fileData.k = "arr" /\ Len(call.arg.fileData.o) = 3
  /\ call.result = Obj(K_data :> Arr(SubSeq(call.arg.fileData.o, 1, 2)))

\* C18: the final value is wrapped as {data: value} iff the body specification
\* has a data member (whatever its value) or a dataFile member.
C18_WrapIffDataOrDataFile ==
  (call.fn = "body" /\ call.result # Thrown) =>
    IF HasData(call.arg.body) \/ HasDataFile(call.arg.body)
    THEN call.result.k = "obj" /\ DOMAIN call.result.o = {K_data}
    ELSE call.result = processTemplate(applyDynamicFields(EmptyObj, call.arg.body.dynamicFields),
                                       call.arg.context, FixedSys)

\* C19: with a dataFile the result before limit and dynamicFields is the blob,
\* reduced, when a filter is there and the blob is a list, to the items that
\* agree with every filter key, in order; another blob passes unchanged, and
\* inline data of the same specification is discarded.
C19_FilterKeepsAgreeingItems ==
  /\ (call.fn = "body" /\ HasDataFile(call.arg.body) /\ call.arg.body.limit.k = "undef"
        /\ call.arg.body.dynamicFields.k = "undef") =>
       call.result = Obj(K_data :> Selected(call.arg.body, call.arg.fileData))
  /\ call.fn = "filter" => call.result = Selected(call.arg.body, call.arg.fileData)

\* a filter of two keys kept one of four items and the inline data was discarded
C19_Witness ==
  /\ call.fn = "body"
  /\ HasDataFile(call.arg.body) /\ HasData(call.arg.body)
  /\ Cardinality(DOMAIN call.arg.body.filter.o) = 2
  /\ call.arg.body.limit.k = "undef" /\ call.arg.body.dynamicFields.k = "undef"
  /\ call.arg.fileData.k = "arr" /\ Len(call.arg.fileData.o) = 4
  /\ call.result = Obj(K_data :> Arr(<<call.arg.fileData.o[3]>>))

\* the request read, or is reading, a data file that is not there
ReadsMissingFile(q) ==
  /\ Matched(q) /\ Has(q.log, "read")
  /\ Chosen(q).body.dataFile \notin DOMAIN files

\* such a request answers with nothing but the 500 of the catch block
C20_MissingFileSafety ==
  \A r \in DOMAIN req : ReadsMissingFile(req[r]) =>
    /\ ~Has(req[r].log, "assemble")
    /\ req[r].pc \in {"reading", "done"}
    /\ IF req[r].pc = "done"
       THEN req[r].res = [headersSent |-> TRUE, statusCode |-> 500, body |-> ProcessorErrorBody]
       ELSE req[r].res = NoRequest.res /\ ~req[r].onWire

\* a request delivered on the normal path got what its own input and the
\* configuration determine
C20_OwnOutcome ==
  \A r \in DOMAIN req :
    (req[r].pc = "done" /\ Has(req[r].log, "assemble")) =>
      /\ req[r].matchResult = findMatchingRoute(routeConfigs, req[r])
      /\ req[r].res.statusCode = Chosen(req[r]).statusCode
      /\ req[r].res.body =
           processResponseBody(Chosen(req[r]).body, createContextFromRequest(req[r]),
                               IF Chosen(req[r]).body.dataFile \in DOMAIN files
                               THEN files[Chosen(req[r]).body.dataFile] ELSE Undef,
                               req[r].sys)

\* a step of the pipeline changes one request and nothing the requests share
C20_OneRequestPerStep ==
  /\ routeConfigs' = routeConfigs /\ globalConfig' = globalConfig /\ files' = files
  /\ \A r1, r2 \in DOMAIN req : (req'[r1] # req[r1] /\ req'[r2] # req[r2]) => r1 = r2

\* C20: a request whose dataFile cannot be found ends with the 500 error body
\* and nothing of a normal response; every other request, concurrent or
\* later, is handled as its own input determines, untouched by the failure.
C20_MissingFileIs500 ==
  /\ [](C20_MissingFileSafety /\ C20_OwnOutcome)
  /\ [][C20_OneRequestPerStep]_vars
  /\ \A r \in Pair :
       (ReadsMissingFile(req[r]) /\ req[r].pc = "reading")
         ~> (req[r].pc = "done" /\ req[r].res.statusCode = 500)

\* one request failed on the missing file, the other was delivered from the file that is there
C20_Witness ==
  \E r1, r2 \in DOMAIN req :
    /\ r1 # r2
    /\ ReadsMissingFile(req[r1]) /\ req[r1].pc = "done" /\ req[r1].res.statusCode = 500
    /\ req[r2].pc = "done" /\ Has(req[r2].log, "read") /\ Has(req[r2].log, "assemble")
    /\ req[r2].res.statusCode \in {200, 201}
    /\ req[r2].sentAt >= req[r1].sentAt

LatencyApplied == call.fn = "applyLatency"
LatencyOf(c) == c.arg.response.latency
GlobalOf(c) == c.arg.global.defaults.latency
UsesGlobal(c) ==
  /\ LatencyOf(c).present /\ LatencyOf(c).enabled
  /\ ~LatencyOf(c).hasDelay /\ ~(LatencyOf(c).hasMin /\ LatencyOf(c).hasMax)

\* C21 as stated: latency enabled without delay and without both min and max
\* waits for an integer of the global range, whatever the global defaults are.
C21_GlobalRangeAlways ==
  (LatencyApplied /\ UsesGlobal(call)) =>
    call.result.n \in GlobalOf(call).min..GlobalOf(call).max

\* C21, amended: in that case the wait is an integer of the global range
\* [min, max] when the global latency is enabled (min <= max), and there is no
\* wait when the global latency is not enabled.
C21_GlobalRangeWhenEnabled ==
  (LatencyApplied /\ UsesGlobal(call)) =>
    /\ (GlobalOf(call).enabled /\ GlobalOf(call).min <= GlobalOf(call).max) =>
         /\ call.result.n \in GlobalOf(call).min..GlobalOf(call).max
         /\ LatencyDelays(call.arg.response, call.arg.global)
              = GlobalOf(call).min..GlobalOf(call).max
    /\ ~GlobalOf(call).enabled => call.result.n = 0

\* the global range was used: a wait at its upper bound, above its lower bound
C21_Witness ==
  /\ LatencyApplied /\ UsesGlobal(call)
  /\ GlobalOf(call).enabled /\ GlobalOf(call).min < GlobalOf(call).max
  /\ LatencyOf(call).hasMin
  /\ call.result.n = GlobalOf(call).max

\* C25: with latency enabled the wait is exactly delay when delay is given,
\* whatever min and max are; otherwise, with min <= max given, it is an integer
\* of [min, max] and every integer of the range, both bounds included, can be
\* drawn; with latency absent or not enabled there is no wait.
C25_DelayThenRange ==
  LatencyApplied =>
    /\ (LatencyOf(call).present /\ LatencyOf(call).enabled /\ LatencyOf(call).hasDelay) =>
         /\ call.result.n = LatencyOf(call).delay
         /\ LatencyDelays(call.arg.response, call.arg.global) = {LatencyOf(call).delay}
    /\ (/\ LatencyOf(call).present /\ LatencyOf(call).enabled /\ ~LatencyOf(call).hasDelay
        /\ LatencyOf(call).hasMin /\ LatencyOf(call).hasMax
        /\ LatencyOf(call).min <= LatencyOf(call).max) =>
         /\ call.result.n \in LatencyOf(call).min..LatencyOf(call).max
         /\ LatencyDelays(call.arg.response, call.arg.global)
              = LatencyOf(call).min..LatencyOf(call).max
    /\ (~LatencyOf(call).present \/ ~LatencyOf(call).enabled) => call.result.n = 0

\* a wait at the upper bound of a range that has more than one integer
C25_Witness ==
  /\ LatencyApplied
  /\ LatencyOf(call).enabled /\ ~LatencyOf(call).hasDelay
  /\ LatencyOf(call).hasMin /\ LatencyOf(call).hasMax
  /\ LatencyOf(call).min < LatencyOf(call).max
  /\ call.result.n = LatencyOf(call).max

\* no stored route definition matches the method and the path of the request
NoRouteMatches(q) ==
  \A i \in 1..Len(routeConfigs) : ~matchesRoute(routeConfigs[i], q.method, q.path)

\* C22: a request that no stored route definition matches in method and path
\* ends with 404 and a body of exactly error, method and path; no timer, no
\* latency, no body assembly and no connection failure is run for it.
C22_UnmatchedIs404 ==
  \A r \in DOMAIN req :
    (Handled(req[r]) /\ NoRouteMatches(req[r])) =>
      /\ req[r].pc = "done"
      /\ req[r].res.headersSent /\ req[r].res.statusCode = 404
      /\ req[r].res.body.k = "obj"
      /\ DOMAIN req[r].res.body.o = {K_error, K_method, K_path}
      /\ req[r].res.body.o[K_method] = Str(MethodChars(req[r].method))
      /\ req[r].res.body.o[K_path] = Str(req[r].path)
      /\ req[r].log = <<"send">>
      /\ ~req[r].timer.set /\ req[r].timer = NoTimer
      /\ req[r].matchResult = NoMatch
      /\ req[r].socket = "open" /\ req[r].onWire

\* a request for a path of no route was answered
C22_Witness ==
  \E r \in DOMAIN req :
    /\ Handled(req[r]) /\ NoRouteMatches(req[r])
    /\ \E i \in 1..Len(routeConfigs) : ToUpperCase(routeConfigs[i].method) = ToUpperCase(req[r].method)
    /\ req[r].res.statusCode = 404

\* the request as it arrived
Arrived(q) ==
  [NoRequest EXCEPT !.pc = "new", !.method = q.method, !.path = q.path, !.query = q.query,
                    !.params = q.params, !.body = q.body, !.headers = q.headers, !.sys = q.sys]

\* the request handled with no other request in flight and no disconnect:
\* the handler, then its timer if it armed one, then the file read if it began one
AloneHandled(q, delay) == Dispatch(Arrived(q), routeConfigs, delay, 0)
AloneFired(q, delay) ==
  IF AloneHandled(q, delay).timer.set
  THEN TimerCallback(AloneHandled(q, delay), AloneHandled(q, delay).timer.due)
  ELSE AloneHandled(q, delay)
Alone(q, delay) ==
  IF AloneFired(q, delay).pc = "reading"
  THEN FinishBody(AloneFired(q, delay), files, AloneFired(q, delay).sentAt)
  ELSE AloneFired(q, delay)

NotDisconnect(e) == e # "disconnect"

\* what a request ended with: position, response written, reset or not,
\* chosen response, and the stages it went through
Outcome(q) ==
  [pc |-> q.pc, res |-> q.res, reset |-> (q.socket = "destroyed"),
   matchResult |-> q.matchResult, stages |-> SelectSeq(q.log, NotDisconnect)]

Terminal(q) == q.pc \in {"done", "hang"}

C23_SameAsAlone ==
  \A r \in DOMAIN req :
    Terminal(req[r]) =>
      \E delay \in LatencyDelays(findMatchingRoute(routeConfigs, req[r]).matchedResponse, globalConfig) :
        Outcome(req[r]) = Outcome(Alone(req[r], delay))

\* a step leaves the route table, the global defaults and the data files as
\* they are, changes one request at most, and writes neither the request's
\* input nor its match result and template context once they exist
C23_NoSharedWrites ==
  /\ routeConfigs' = routeConfigs /\ globalConfig' = globalConfig /\ files' = files
  /\ \A r1, r2 \in DOMAIN req : (req'[r1] # req[r1] /\ req'[r2] # req[r2]) => r1 = r2
  /\ \A r \in DOMAIN req :
       /\ req[r].pc # "none" =>
            /\ req'[r].method = req[r].method /\ req'[r].path = req[r].path
            /\ req'[r].query = req[r].query /\ req'[r].params = req[r].params
            /\ req'[r].body = req[r].body /\ req'[r].headers = req[r].headers
            /\ req'[r].sys = req[r].sys
       /\ req[r].matchResult.found => req'[r].matchResult = req[r].matchResult
       /\ req'[r].matchResult.found =>
            req'[r].matchResult.templateContext = createContextFromRequest(req[r])

\* C23: with the route table, the data files and the global defaults fixed,
\* in every interleaving of two requests each request ends as it would have
\* ended alone (same terminal position, status code, body and chosen
\* response), no step changes state another request reads, and the request
\* context is never written after its creation.
C23_Isolation == []C23_SameAsAlone /\ [][C23_NoSharedWrites]_vars

\* both requests ended, one of them after the other had been suspended and
\* had run its timer in between
C23_Witness ==
  \E r1, r2 \in DOMAIN req :
    /\ r1 # r2
    /\ Terminal(req[r1]) /\ Terminal(req[r2])
    /\ Has(req[r1].log, "fire") /\ req[r1].pc = "done"
    /\ req[r2].pc = "done" /\ req[r2].res.statusCode \in {200, 201, 408}
    /\ req[r2].sentAt > 0 /\ req[r1].sentAt > req[r2].sentAt
    /\ req[r1].matchResult # req[r2].matchResult

\* the route definitions read, in reading order, until statSync fails
RECURSIVE ReadUntilFailure(_)
ReadUntilFailure(items) ==
  IF items = <<>> THEN [read |-> <<>>, failed |-> FALSE]
  ELSE CASE Head(items).kind = "unreadable" -> [read |-> <<>>, failed |-> TRUE]
         [] Head(items).kind = "config" ->
              [read |-> <<Head(items).config>> \o ReadUntilFailure(Tail(items)).read,
               failed |-> ReadUntilFailure(Tail(items)).failed]
         [] Head(items).kind = "dir" ->
              IF ReadUntilFailure(Head(items).items).failed
              THEN ReadUntilFailure(Head(items).items)
              ELSE [read |-> ReadUntilFailure(Head(items).items).read
                               \o ReadUntilFailure(Tail(items)).read,
                    failed |-> ReadUntilFailure(Tail(items)).failed]
         [] OTHER -> ReadUntilFailure(Tail(items))

DefinitionsRead(dir) == IF dir.exists THEN ReadUntilFailure(dir.items).read ELSE <<>>

\* the last definition read for each key, and nothing else
HoldsExactly(store, read) ==
  /\ \A i, j \in 1..Len(store) : ConfigKey(store[i]) = ConfigKey(store[j]) => i = j
  /\ \A i \in 1..Len(store) :
       \E k \in 1..Len(read) :
         /\ read[k] = store[i]
         /\ \A m \in (k + 1)..Len(read) : ConfigKey(read[m]) # ConfigKey(read[k])
  /\ \A k \in 1..Len(read) : \E i \in 1..Len(store) : ConfigKey(store[i]) = ConfigKey(read[k])

RouteReloadDone ==
  \/ call.fn = "reloadConfigurations"
  \/ call.fn = "refresh" /\ call.arg.scope \in {"all", "configs"}

ReloadCount ==
  IF call.fn = "refresh" THEN call.result.o[<<"c", "o", "n", "f", "i", "g", "s">>].n
  ELSE call.result.n

\* C28: after a route-configuration reload the store holds exactly the
\* definitions read during it, one per (upper-cased method, path) key, none
\* from before the reload, also when reading failed part-way or the routes
\* directory is missing; the count returned is the size of the store.
C28_StoreIsWhatWasRead ==
  RouteReloadDone =>
    /\ HoldsExactly(routeConfigs, DefinitionsRead(call.arg.dir))
    /\ ReloadCount = Len(routeConfigs)

\* a reload over a non-empty store that failed part-way, after reading two
\* definitions of one key
C28_Witness ==
  /\ RouteReloadDone
  /\ call.arg.dir.exists /\ ReadUntilFailure(call.arg.dir.items).failed
  /\ Len(DefinitionsRead(call.arg.dir)) > Len(routeConfigs)
  /\ Len(routeConfigs) = 1

Suspended(q) == q.pc \in {"failure", "timeout", "latency", "reading"}

\* the request after the steps it still has to take, the data directory being dir
AfterTimer(q) == IF q.timer.set THEN TimerCallback(q, q.timer.due) ELSE q
Completion(q, dir) ==
  IF AfterTimer(q).pc = "reading" THEN FinishBody(AfterTimer(q), dir, AfterTimer(q).sentAt)
  ELSE AfterTimer(q)

\* C24: a request that has matched its route completes with the route
\* definition and the data file contents in force when it matched: no step
\* taken while it is suspended changes its match result or the response it
\* is going to get.
C24_InFlightKeepsView ==
  [][\A r \in DOMAIN req :
       (Matched(req[r]) /\ Suspended(req[r])) =>
         /\ req'[r].matchResult = req[r].matchResult
         /\ Completion(req'[r], files').res = Completion(req[r], files).res]_vars

\* C29: of the logical keys a node carries, the first of $and, $or, $not
\* decides alone: the node evaluates as the node holding that one key only,
\* whatever its other logical keys and its field entries are.
C29_OneLogicalKeyDecides ==
  call.fn = "mixed" =>
    call.result.b =
      IF "$and" \in call.arg.keys
      THEN evaluate(AndNode(<<call.arg.a>>), call.arg.context)
      ELSE IF "$or" \in call.arg.keys
      THEN evaluate(OrNode(<<call.arg.b>>), call.arg.context)
      ELSE evaluate(NotNode(call.arg.a), call.arg.context)

\* $and decided true although the $or, the $not and a field entry of the
\* same node are all false
C29_Witness ==
  /\ call.fn = "mixed" /\ call.arg.keys = {"$and", "$or", "$not"}
  /\ call.arg.b.fields # <<>>
  /\ ~evaluate(call.arg.b, call.arg.context)
  /\ evaluate(call.arg.a, call.arg.context)
  /\ call.result = Bool(TRUE)

RECURSIVE Count(_, _)
Count(log, e) ==
  IF log = <<>> THEN 0 ELSE (IF Head(log) = e THEN 1 ELSE 0) + Count(Tail(log), e)

C26_OneResponse ==
  \A r \in DOMAIN req :
    /\ Count(req[r].log, "send") <= 1
    /\ req[r].res.headersSent = (Count(req[r].log, "send") = 1)
    /\ Has(req[r].log, "reset") =>
         /\ ~Has(req[r].log, "send") /\ ~req[r].res.headersSent /\ ~req[r].onWire
         /\ req[r].socket = "destroyed" /\ ~req[r].timer.set

\* a response once written is not written again or changed, and nothing is
\* written once the socket is destroyed
C26_NoSecondWrite ==
  \A r \in DOMAIN req :
    (req[r].res.headersSent \/ req[r].socket = "destroyed") =>
      (req'[r].res = req[r].res /\ req'[r].onWire = req[r].onWire)

\* C26: in every execution of a request, whatever the order of timer firing,
\* completion, error handling and client disconnect, at most one response is
\* written, and none after a transport reset.
C26_AtMostOneResponse == []C26_OneResponse /\ [][C26_NoSecondWrite]_vars

\* the delayed reset ran after the client had gone, and nothing was written
C26_Witness ==
  \E r \in DOMAIN req :
    /\ Has(req[r].log, "reset") /\ Has(req[r].log, "fire") /\ Has(req[r].log, "disconnect")
    /\ req[r].pc = "done" /\ ~req[r].res.headersSent

SilentChosen(q) ==
  /\ Matched(q)
  /\ Chosen(q).connectionFailure.present
  /\ Chosen(q).connectionFailure.type = "silent"

UnknownFailureChosen(q) ==
  /\ Matched(q)
  /\ Chosen(q).connectionFailure.present
  /\ Chosen(q).connectionFailure.type \notin {"reset", "silent"}

\* normal response, 404, 408, 500, or transport reset
TerminalOutcome(q) ==
  /\ q.pc = "done"
  /\ \/ q.socket = "destroyed" /\ ~q.res.headersSent
     \/ q.res.headersSent /\ q.res.statusCode \in {404, 408, 500}
     \/ q.res.headersSent /\ Matched(q) /\ q.res.statusCode = Chosen(q).statusCode

\* a request with a connectionFailure of unknown type is waiting for the
\* delay of the failure or has ended with the 500 of the default case
C27_UnknownTypeIs500 ==
  \A r \in Reqs :
    UnknownFailureChosen(req[r]) =>
      \/ req[r].pc = "failure" /\ req[r].timer.set
      \/ /\ req[r].pc = "done" /\ req[r].res.headersSent /\ req[r].res.statusCode = 500
         /\ req[r].res.body = InvalidFailureBody

\* C27: a request that arrived reaches a terminal outcome (normal response,
\* 404, 408, 500 or reset) unless its chosen response turns out to be a
\* silent connection failure, when timers fire and the client stays
\* connected; with a connectionFailure of unknown type the outcome is the 500.
C27_EventuallyTerminal ==
  /\ []C27_UnknownTypeIs500
  /\ \A r \in Reqs :
       (req[r].pc # "none" /\ ~SilentChosen(req[r]))
         ~> (TerminalOutcome(req[r]) \/ SilentChosen(req[r]) \/ req[r].socket = "closed")

\* a request with a connection failure of unknown type ended with the 500
C27_Witness ==
  \E r \in Reqs :
    /\ Matched(req[r]) /\ Chosen(req[r]).connectionFailure.present
    /\ Chosen(req[r]).connectionFailure.type \notin {"reset", "silent"}
    /\ req[r].pc = "done" /\ req[r].res.statusCode = 500 /\ req[r].socket = "open"
====
